---- MODULE Spec2Model ----
(***************************************************************************)
(* Model of the log parsing engine (src/log_parser.py, src/utils.py,       *)
(* src/config.py): container sniffing, decoding, log-type classification,  *)
(* the per-grammar parsers and the LogParser instance state they mutate.   *)
(*                                                                         *)
(* Text is modelled at chunk level: a string is a sequence of chunks, a    *)
(* chunk being one of the characters the grammars give a meaning to (space,*)
(* newline, double quote, comma, the square brackets) or an atom, a        *)
(* maximal run of other characters.  What the code asks of the characters  *)
(* inside an atom (isdigit, int(), a regex hit, a first character) is      *)
(* tabulated per atom.                                                     *)
(***************************************************************************)
EXTENDS Integers, Sequences, FiniteSets, TLC

\* ------------------------------------------------------------------ bounds
\* The longest file (in lines) the inputs are drawn from.
MaxLines == 2

\* --------------------------------------------------------------- config.py
DEFAULT_LOG_TYPE == "browsing"

DefaultDatetimeFormat == "%Y%m%d%H%M%S"

LOG_TYPES ==
  [browsing |-> [columns |-> <<"timestamp", "ip_address", "username", "url",
                               "bandwidth", "status_code", "content_type",
                               "category", "device_info">>,
                 datetime_format |-> "%Y%m%d%H%M%S", separator |-> " "],
   virus |-> [columns |-> <<"timestamp", "ip_address", "username", "virus_name",
                            "file_path", "action_taken", "scan_engine", "severity">>,
              datetime_format |-> "%Y%m%d%H%M%S", separator |-> " "],
   mail |-> [columns |-> <<"timestamp", "sender", "recipient", "subject",
                           "size", "status", "attachment_count", "spam_score">>,
             datetime_format |-> "%Y%m%d%H%M%S", separator |-> " "],
   firewall |-> [columns |-> <<"timestamp", "action", "protocol", "src_ip",
                               "src_port", "dst_ip", "dst_port", "interface",
                               "rule_id", "description">>,
                 datetime_format |-> "%Y%m%d%H%M%S", separator |-> " "],
   auth |-> [columns |-> <<"timestamp", "username", "source_ip", "service",
                           "status", "auth_method", "details">>,
             datetime_format |-> "%Y%m%d%H%M%S", separator |-> " "],
   system |-> [columns |-> <<"timestamp", "hostname", "service", "pid",
                             "level", "message">>,
               datetime_format |-> "%Y%m%d%H%M%S", separator |-> " "],
   application |-> [columns |-> <<"timestamp", "app_name", "level", "component",
                                  "thread_id", "request_id", "message">>,
                    datetime_format |-> "%Y%m%d%H%M%S", separator |-> " "],
   ids |-> [columns |-> <<"timestamp", "alert_id", "severity", "category",
                          "src_ip", "dst_ip", "protocol", "signature",
                          "description">>,
            datetime_format |-> "%Y%m%d%H%M%S", separator |-> " "],
   vpn |-> [columns |-> <<"timestamp", "username", "client_ip", "session_id",
                          "event_type", "duration", "bytes_in", "bytes_out">>,
            datetime_format |-> "%Y%m%d%H%M%S", separator |-> " "],
   syslog |-> [columns |-> <<"timestamp", "hostname", "process", "pid", "message">>,
               datetime_format |-> "%b %d %H:%M:%S", separator |-> " "],
   clf |-> [columns |-> <<"host", "ident", "authuser", "timestamp", "method",
                          "path", "protocol", "status", "bytes_sent", "url">>,
            datetime_format |-> "%d/%b/%Y:%H:%M:%S %z", separator |-> " "],
   elf |-> [columns |-> <<>>, datetime_format |-> "%Y-%m-%d %H:%M:%S", separator |-> " "],
   json |-> [columns |-> <<>>, datetime_format |-> "%Y-%m-%d %H:%M:%S", separator |-> ""],
   xml |-> [columns |-> <<>>, datetime_format |-> "%Y-%m-%d %H:%M:%S", separator |-> ""],
   csv |-> [columns |-> <<>>, datetime_format |-> "%Y-%m-%d %H:%M:%S", separator |-> ","]]

\* LOG_TYPES.get(t, {}).get("columns", []) and its two siblings.
ColumnsOf(t) == IF t \in DOMAIN LOG_TYPES THEN LOG_TYPES[t].columns ELSE <<>>
SeparatorOf(t) == IF t \in DOMAIN LOG_TYPES THEN LOG_TYPES[t].separator ELSE " "
DatetimeFormatOf(t) ==
  IF t \in DOMAIN LOG_TYPES THEN LOG_TYPES[t].datetime_format ELSE DefaultDatetimeFormat

\* The grammars the specification calls the fixed-field family.
FixedFieldTypes ==
  {"browsing", "virus", "mail", "firewall", "auth", "system", "application", "ids", "vpn"}

\* ------------------------------------------------------------ text (chunks)
SP == " "
NL == "\n"
QT == "\""
CM == ","
LB == "["
RB == "]"
Whitespace == {SP, NL}

RECURSIVE lstrip(_)
lstrip(s) == IF s # <<>> /\ Head(s) \in Whitespace THEN lstrip(Tail(s)) ELSE s

RECURSIVE rstrip(_)
rstrip(s) ==
  IF s # <<>> /\ s[Len(s)] \in Whitespace THEN rstrip(SubSeq(s, 1, Len(s) - 1)) ELSE s

\* str.strip()
strip(s) == rstrip(lstrip(s))

\* Length of the leading run of non-whitespace chunks of s.
RECURSIVE WordLen(_)
WordLen(s) == IF s = <<>> \/ Head(s) \in Whitespace THEN 0 ELSE 1 + WordLen(Tail(s))

\* str.split(maxsplit=k) on whitespace; k < 0 is "no limit".  Leading whitespace
\* is skipped before every token; once k splits are made the rest of the string
\* is the last token, inner whitespace kept and trailing whitespace removed.
RECURSIVE split(_, _)
split(s, k) ==
  LET t == lstrip(s)
      n == WordLen(t)
  IN  IF t = <<>> THEN <<>>
      ELSE IF k = 0 THEN <<rstrip(t)>>
      ELSE <<SubSeq(t, 1, n)>> \o split(SubSeq(t, n + 1, Len(t)), k - 1)

\* Index of the first chunk of s equal to c, 0 when there is none.
RECURSIVE IndexOf(_, _, _)
IndexOf(s, c, i) ==
  IF i > Len(s) THEN 0 ELSE IF s[i] = c THEN i ELSE IndexOf(s, c, i + 1)

\* str.split(sep) for a one-character separator: every occurrence splits, so
\* adjacent separators give empty strings.
RECURSIVE split_sep(_, _)
split_sep(s, sep) ==
  LET i == IndexOf(s, sep, 1)
  IN  IF i = 0 THEN <<s>>
      ELSE <<SubSeq(s, 1, i - 1)>> \o split_sep(SubSeq(s, i + 1, Len(s)), sep)

\* ------------------------------------------------------- what atoms contain
\* str.isdigit(): the atom is a non-empty run of decimal digits.
DigitAtoms == {"1704067200", "2048", "200", "20240101000000"}

\* int(atom) succeeds: an optional sign and decimal digits.
IntAtoms == DigitAtoms \cup {"-5"}

\* The integer an atom of IntAtoms denotes, for those that fit TLC's 32-bit
\* integers; HugeAtoms are the all-digit atoms that do not.
HugeAtoms == {"20240101000000"}

IntOf(a) ==
  CASE a = "1704067200" -> 1704067200
    [] a = "2048" -> 2048
    [] a = "200" -> 200
    [] a = "-5" -> 0 - 5
    [] OTHER -> 0

\* Per keyword regular expression of the classifiers, the atoms it finds a match
\* in (re.search; no expression contains whitespace, so a match lies in one atom).
\*   url        https?://|www\.|\.(com|org|net|edu|gov)      (case sensitive)
\*   status     \b[1-5][0-9]{2}\b
\*   the rest   re.IGNORECASE alternations of keywords
RegexAtoms ==
  [url |-> {"http://a.com/x"},
   status |-> {"200"},
   virus |-> {"virus.exe", "virus"},
   mail |-> {},
   firewall |-> {"DENY"},
   auth |-> {},
   system |-> {},
   application |-> {"ERROR"},
   ids |-> {},
   vpn |-> {}]

\* re.search(pattern, line) for the pattern named cat.
re_search(cat, line) == \E i \in 1..Len(line) : line[i] \in RegexAtoms[cat]

\* ------------------------------------------------------------------ values
\* A cell of a table: a string, an integer, a timestamp (seconds since the
\* epoch) or null (NaN / NaT / None).
Str(s) == [t |-> "str", s |-> s, n |-> 0]
Num(n) == [t |-> "num", s |-> <<>>, n |-> n]
Dt(n) == [t |-> "datetime", s |-> <<>>, n |-> n]
Null == [t |-> "null", s |-> <<>>, n |-> 0]

Range(f) == {f[i] : i \in DOMAIN f}

\* pd.DataFrame(data): the rows, and the union of their keys as the columns.
DataFrame(data) ==
  [columns |-> UNION {DOMAIN data[i] : i \in DOMAIN data}, rows |-> data]

\* pd.DataFrame(columns=cols): no rows.
EmptyDataFrame(cols) == [columns |-> Range(cols), rows |-> <<>>]

\* What a parser hands back: a table, or an exception leaving it.
Returned(df) == [raised |-> FALSE, df |-> df]
Raised == [raised |-> TRUE, df |-> EmptyDataFrame(<<>>)]

\* ----------------------------------------------- utils.py: format_timestamp
Pad2(n) == IF n < 10 THEN "0" \o ToString(n) ELSE ToString(n)

\* datetime.fromtimestamp(n).strftime("%Y-%m-%d %H:%M:%S") for n >= 0, the
\* process running in UTC: days since 1970-01-01 to a civil date.
strftime_epoch(n) ==
  LET days == n \div 86400
      secs == n % 86400
      z == days + 719468
      era == z \div 146097
      doe == z - era * 146097
      yoe == (doe - doe \div 1460 + doe \div 36524 - doe \div 146096) \div 365
      doy == doe - (365 * yoe + yoe \div 4 - yoe \div 100)
      mp == (5 * doy + 2) \div 153
      d == doy - (153 * mp + 2) \div 5 + 1
      m == IF mp < 10 THEN mp + 3 ELSE mp - 9
      y == yoe + era * 400 + (IF m <= 2 THEN 1 ELSE 0)
  IN  <<ToString(y) \o "-" \o Pad2(m) \o "-" \o Pad2(d), SP,
        Pad2(secs \div 3600) \o ":" \o Pad2((secs % 3600) \div 60) \o ":" \o Pad2(secs % 60)>>

\* datetime.strptime(timestamp, dt_format).strftime("%Y-%m-%d %H:%M:%S"): the
\* instant the text denotes under the format, or a ValueError.  The strings of
\* the inputs that match one of the registry's formats, with their instants.
strptime(timestamp, dt_format) ==
  CASE dt_format = "%Y%m%d%H%M%S" /\ timestamp = <<"20240101000000">> ->
         [ok |-> TRUE, text |-> <<"2024-01-01", SP, "00:00:00">>]
    [] dt_format = "%Y%m%d%H%M%S" /\ timestamp = <<"1704067200">> ->
         [ok |-> TRUE, text |-> <<"1704-06-07", SP, "02:00:00">>]
    [] dt_format = "%Y-%m-%d %H:%M:%S" /\ timestamp = <<"2024-01-01", SP, "00:00:00">> ->
         [ok |-> TRUE, text |-> <<"2024-01-01", SP, "00:00:00">>]
    [] OTHER -> [ok |-> FALSE, text |-> <<>>]

\* format_timestamp(timestamp, log_type) for a str or a non-negative int.  An
\* all-digit string is converted to int whatever its length; an int is taken
\* as epoch seconds, and fromtimestamp raises for a year past 9999; any
\* exception returns str(timestamp).
format_timestamp(timestamp, log_type) ==
  IF timestamp.t = "num" THEN strftime_epoch(timestamp.n)
  ELSE IF Len(timestamp.s) = 1 /\ timestamp.s[1] \in DigitAtoms
  THEN IF timestamp.s[1] \in HugeAtoms THEN timestamp.s
       ELSE strftime_epoch(IntOf(timestamp.s[1]))
  ELSE LET dt == strptime(timestamp.s, DatetimeFormatOf(log_type))
       IN  IF dt.ok THEN dt.text ELSE timestamp.s

\* -------------------------------------------- log_parser.py: fixed-field parsers
\* The loop body shared by the nine fixed-field parsers: split the stripped
\* line into at most Len(names) parts, keep the line when it has that many,
\* name the parts, and add the formatted timestamp beside the raw one.
FixedRow(parts, names, log_type) ==
  [k \in Range(names) \cup {"raw_timestamp"} |->
     IF k = "raw_timestamp" THEN Str(parts[1])
     ELSE IF k = "timestamp" THEN Str(format_timestamp(Str(parts[1]), log_type))
     ELSE Str(parts[CHOOSE i \in 1..Len(names) : names[i] = k])]

\* A loop that puts each new record in front of the earlier ones.
RECURSIVE FixedRows_newest_first(_, _, _)
FixedRows_newest_first(lines, names, log_type) ==
  IF lines = <<>> THEN <<>>
  ELSE LET parts == split(strip(Head(lines)), Len(names) - 1)
           rest == FixedRows_newest_first(Tail(lines), names, log_type)
       IN  IF Len(parts) >= Len(names)
           THEN rest \o <<FixedRow(parts, names, log_type)>>
           ELSE rest

RECURSIVE FixedRows(_, _, _)
FixedRows(lines, names, log_type) ==
  IF lines = <<>> THEN <<>>
  ELSE LET parts == split(strip(Head(lines)), Len(names) - 1)
           rest == FixedRows(Tail(lines), names, log_type)
       IN  IF Len(parts) >= Len(names)
           THEN <<FixedRow(parts, names, log_type)>> \o rest
           ELSE rest

\* pd.to_numeric(value, errors="coerce") on a string cell.
to_numeric(v) ==
  IF Len(v.s) = 1 /\ v.s[1] \in IntAtoms \ HugeAtoms THEN Num(IntOf(v.s[1])) ELSE Null

\* int(cell) as Series.astype(int) applies it: TRUE when it raises ValueError.
astype_int_raises(v) == ~(Len(v.s) = 1 /\ v.s[1] \in IntAtoms)

\* pd.to_datetime(int, unit='s', errors='coerce'): NaT when out of bounds.
to_datetime(v) ==
  IF v.s[1] \in HugeAtoms \/ IntOf(v.s[1]) < 0 THEN Null ELSE Dt(IntOf(v.s[1]))

_parse_browsing_logs(lines) ==
  LET data == FixedRows(lines, <<"timestamp", "ip_address", "username", "url",
                                 "bandwidth", "status_code", "content_type",
                                 "category", "device_info">>, "browsing")
      convert(r) ==
        [k \in DOMAIN r \cup {"datetime"} |->
           IF k \in {"bandwidth", "status_code"} THEN to_numeric(r[k])
           ELSE IF k = "datetime" THEN to_datetime(r["raw_timestamp"])
           ELSE r[k]]
  IN  IF data = <<>> THEN Returned(DataFrame(data))
      ELSE IF \E i \in DOMAIN data : astype_int_raises(data[i]["raw_timestamp"])
      THEN Raised
      ELSE Returned(DataFrame([i \in DOMAIN data |-> convert(data[i])]))

_parse_virus_logs(lines) ==
  Returned(DataFrame(FixedRows(lines,
    <<"timestamp", "ip_address", "username", "virus_name", "file_path",
      "action_taken", "scan_engine", "severity">>, "virus")))

_parse_mail_logs(lines) ==
  Returned(DataFrame(FixedRows(lines,
    <<"timestamp", "sender", "recipient", "subject", "size", "status",
      "attachment_count", "spam_score">>, "mail")))

_parse_firewall_logs(lines) ==
  Returned(DataFrame(FixedRows(lines,
    <<"timestamp", "action", "protocol", "src_ip", "src_port", "dst_ip",
      "dst_port", "interface", "rule_id", "description">>, "firewall")))

_parse_auth_logs(lines) ==
  Returned(DataFrame(FixedRows(lines,
    <<"timestamp", "username", "source_ip", "service", "status",
      "auth_method", "details">>, "auth")))

_parse_system_logs(lines) ==
  Returned(DataFrame(FixedRows(lines,
    <<"timestamp", "hostname", "service", "pid", "level", "message">>, "system")))

_parse_application_logs(lines) ==
  Returned(DataFrame(FixedRows(lines,
    <<"timestamp", "app_name", "level", "component", "thread_id",
      "request_id", "message">>, "application")))

_parse_ids_logs(lines) ==
  Returned(DataFrame(FixedRows(lines,
    <<"timestamp", "alert_id", "severity", "category", "src_ip", "dst_ip",
      "protocol", "signature", "description">>, "ids")))

_parse_vpn_logs(lines) ==
  Returned(DataFrame(FixedRows(lines,
    <<"timestamp", "username", "client_ip", "session_id", "event_type",
      "duration", "bytes_in", "bytes_out">>, "vpn")))

\* ------------------------------------------------ log_parser.py: generic parser
\* The inner loop of _parse_generic_logs over parts[i..]: a part within the
\* declared columns is stored under its column, a later one is appended to the
\* last column after a space.
RECURSIVE GenericRow(_, _, _, _)
GenericRow(parts, i, columns, row) ==
  IF i > Len(parts) THEN row
  ELSE LET last == columns[Len(columns)]
           next ==
             IF i <= Len(columns)
             THEN [k \in DOMAIN row \cup {columns[i]} |->
                     IF k = columns[i] THEN Str(parts[i]) ELSE row[k]]
             ELSE IF columns # <<>>
             THEN [k \in DOMAIN row \cup {last} |->
                     IF k = last
                     THEN Str((IF last \in DOMAIN row THEN row[last].s ELSE <<>>)
                              \o <<SP>> \o parts[i])
                     ELSE row[k]]
             ELSE row
       IN  GenericRow(parts, i + 1, columns, next)

EmptyRow == [k \in {} |-> Null]

RECURSIVE GenericRows(_, _, _)
GenericRows(lines, columns, separator) ==
  IF lines = <<>> THEN <<>>
  ELSE LET row == GenericRow(split_sep(strip(Head(lines)), separator), 1, columns, EmptyRow)
           rest == GenericRows(Tail(lines), columns, separator)
       IN  IF row # EmptyRow THEN <<row>> \o rest ELSE rest

\* str.split("") raises ValueError("empty separator").
_parse_generic_logs(self, lines) ==
  IF lines # <<>> /\ self.separator = "" THEN Raised
  ELSE Returned(DataFrame(GenericRows(lines, self.columns, self.separator)))

\* ------------------------------------------------------------------- sources
\* A byte source: the extension of its name, whether a file of that path can
\* be opened, how its bytes encode the text (enc), whether the bytes are valid
\* UTF-8, and the text: the lines a lenient decode of the decompressed bytes
\* gives (for "binary", what is left of the bytes once undecodable ones are
\* ignored).  The bytes of a compressed source that a lenient plain-text read
\* leaves are GarbageText.
\*   enc: "plain" | "gzip" | "bz2" | "zip" | "binary" | "gzbad"
\* "gzbad" starts with the gzip signature and its stream is corrupt; for "zip",
\* text is the first member of the archive and members says whether it has one.
GarbageText == << <<"\\x1f\\x08garbage">> >>

Compressed == {"gzip", "bz2", "zip", "gzbad"}

\* The text of the bytes read as plain text with errors='ignore'.
PlainText(src) == IF src.enc \in Compressed THEN GarbageText ELSE src.text

\* f.readlines(): every line keeps its newline.
readlines(text) == [i \in DOMAIN text |-> text[i] \o <<NL>>]

\* str.splitlines(): no line keeps it.
splitlines(text) == text

\* Characters inside atoms that the sniffers look at.
BraceAtoms == {"{", "{bad"}
HashAtoms == {"#Fields:", "#Version:"}

\* The sample JSON object as a producer writes it, and as json.dumps writes it.
JsonObjectText == <<"{", QT, "msg", QT, ":", QT, "virus", QT, "}">>
JsonDumpedText == <<"{", QT, "msg", QT, ":", SP, QT, "virus", QT, "}">>
JsonArrayText == <<LB, "200", RB>>

startswith(line, atoms) == line # <<>> /\ line[1] \in atoms

\* json.loads(s): the value, or "JSONDecodeError".  Objects are records of cells.
json_loads(s) ==
  LET t == strip(s)
  IN  IF t \in {JsonObjectText, JsonDumpedText}
      THEN [kind |-> "object", value |-> [msg |-> Str(<<"virus">>)]]
      ELSE IF t = JsonArrayText
      THEN [kind |-> "array", value |-> [k \in {"0"} |-> Num(200)]]
      ELSE IF Len(t) = 1 /\ t[1] \in (IntAtoms \ HugeAtoms)
      THEN [kind |-> "number", value |-> [k \in {"0"} |-> Num(IntOf(t[1]))]]
      ELSE [kind |-> "JSONDecodeError", value |-> [k \in {} |-> Null]]

\* json.dumps(value) of a value json_loads produced, as text.
json_dumps(j) ==
  CASE j.kind = "object" -> JsonDumpedText
    [] j.kind = "array" -> JsonArrayText
    [] OTHER -> <<ToString(j.value["0"].n)>>

\* The sequences of at most n members of S.
RECURSIVE SeqsUpTo(_, _)
SeqsUpTo(S, n) ==
  IF n = 0 THEN {<<>>}
  ELSE LET shorter == SeqsUpTo(S, n - 1)
       IN  shorter \cup {Append(t, x) : t \in shorter, x \in S}

\* An XML element: its tag, its text, the text after its end tag (tail) and its
\* child elements.  The documents are a root with up to MaxLines children, each
\* an entry with one child (with or without text after it) or a leaf.
XmlLeaf(text) == [tag |-> "a", text |-> text, tail |-> "", children |-> <<>>]
XmlEntry(tail) == [tag |-> "e", text |-> "", tail |-> tail, children |-> <<XmlLeaf("1")>>]
XmlChildren == {XmlEntry(""), XmlEntry("junk"), XmlLeaf("2")}
XmlRoots ==
  {[tag |-> "logs", text |-> "", tail |-> "", children |-> c] :
     c \in SeqsUpTo(XmlChildren, MaxLines) \ {<<>>}}
XmlElements == XmlRoots \cup {XmlEntry(""), XmlLeaf("1"), XmlLeaf("2")}

\* ET.tostring(elem, encoding='unicode'): the element with its content, and
\* the tail after it.
RECURSIVE tostring(_)
tostring(elem) ==
  LET RECURSIVE inner(_)
      inner(children) ==
        IF children = <<>> THEN "" ELSE tostring(Head(children)) \o inner(Tail(children))
  IN  "<" \o elem.tag \o ">" \o elem.text \o inner(elem.children)
        \o "</" \o elem.tag \o ">" \o elem.tail

\* Atoms that start with "<".
AngleAtoms == {tostring(elem) : elem \in XmlElements}

\* xml.etree.ElementTree.fromstring(s): the element whose serialisation the
\* stripped text is, or "ParseError"; text after the end tag of the document
\* element is an error.
ET_fromstring(s) ==
  LET t == strip(s)
      parsed == {elem \in XmlElements : <<tostring(elem)>> = t}
  IN  IF parsed # {}
      THEN [ok |-> TRUE, elem |-> CHOOSE elem \in parsed : TRUE]
      ELSE [ok |-> FALSE, elem |-> XmlLeaf("")]

\* root.findall('.//*'): the descendants of the root in document order.
RECURSIVE findall(_)
findall(children) ==
  IF children = <<>> THEN <<>>
  ELSE <<Head(children)>> \o findall(Head(children).children) \o findall(Tail(children))

\* [ET.tostring(elem, encoding='unicode') for elem in root.findall('.//*')]
findall_tostring(children) ==
  [i \in DOMAIN findall(children) |-> <<tostring(findall(children)[i])>>]

\* The whole content of a text as one string: its lines, each with its newline.
RECURSIVE Content(_)
Content(text) == IF text = <<>> THEN <<>> ELSE Head(text) \o <<NL>> \o Content(Tail(text))

\* csv.reader over lines, the excel dialect: a comma ends a field, a quote at
\* the start of a field opens a quoted field in which commas and newlines are
\* data and a doubled quote is one quote; a quoted field left open at the end
\* of a line continues on the next line.  st is the reader's state:
\*   q: 0 at the start of a field, 1 in an unquoted field, 2 in a quoted field,
\*      3 after a quote seen inside a quoted field
\* field and row are what has been gathered so far.
RECURSIVE csv_scan(_, _, _, _, _)
csv_scan(lines, s, q, field, row) ==
  IF s = <<>>
  THEN IF q = 2
       THEN IF lines = <<>> THEN <<row \o <<field>>>>
            ELSE csv_scan(Tail(lines), Head(lines), 2, field, row)
       ELSE LET done == IF q = 0 /\ row = <<>> THEN <<>> ELSE row \o <<field>>
            IN  <<done>> \o (IF lines = <<>> THEN <<>>
                             ELSE csv_scan(Tail(lines), Head(lines), 0, <<>>, <<>>))
  ELSE LET c == Head(s)
           r == Tail(s)
       IN  CASE q = 2 /\ c = QT -> csv_scan(lines, r, 3, field, row)
             [] q = 2 /\ c # QT -> csv_scan(lines, r, 2, field \o <<c>>, row)
             [] q = 3 /\ c = QT -> csv_scan(lines, r, 2, field \o <<QT>>, row)
             [] q # 2 /\ c = NL -> csv_scan(lines, r, q, field, row)
             [] q # 2 /\ c = CM -> csv_scan(lines, r, 0, <<>>, row \o <<field>>)
             [] q = 0 /\ c = QT -> csv_scan(lines, r, 2, field, row)
             [] OTHER -> csv_scan(lines, r, 1, field \o <<c>>, row)

\* list(csv.reader(lines)): one row (a sequence of fields) per record.
csv_reader(lines) ==
  IF lines = <<>> THEN <<>> ELSE csv_scan(Tail(lines), Head(lines), 0, <<>>, <<>>)

\* ','.join(row)
RECURSIVE join_comma(_)
join_comma(row) ==
  IF row = <<>> THEN <<>>
  ELSE IF Len(row) = 1 THEN row[1]
  ELSE row[1] \o <<CM>> \o join_comma(Tail(row))

\* Program constants: how many lines each classifier samples.
DetectSampleLines == 5
ContentSampleLines == 10

\* lines[:n]
Take(lines, n) == SubSeq(lines, 1, IF Len(lines) < n THEN Len(lines) ELSE n)

\* ------------------------------------------------- utils.py: detect_log_type
\* The first match over the sample lines, in the order browsing, virus, mail;
\* DEFAULT_LOG_TYPE when nothing matches.
RECURSIVE detect_scan(_)
detect_scan(sample) ==
  IF sample = <<>> THEN DEFAULT_LOG_TYPE
  ELSE LET line == Head(sample)
       IN  IF re_search("url", line) /\ re_search("status", line) THEN "browsing"
           ELSE IF re_search("virus", line) THEN "virus"
           ELSE IF re_search("mail", line) THEN "mail"
           ELSE detect_scan(Tail(sample))

\* open(file_path, 'r') decodes strictly: a missing file or undecodable bytes
\* raise, and the except clause answers DEFAULT_LOG_TYPE.
detect_log_type(src) ==
  IF ~src.exists \/ ~src.utf8 THEN DEFAULT_LOG_TYPE
  ELSE detect_scan(Take(readlines(PlainText(src)), DetectSampleLines))

\* --------------------------------------------- log_parser.py: LogParser state
\* The settings __init__ and the detectors derive from a log type.
Configure(log_type) ==
  [log_type |-> log_type,
   columns |-> ColumnsOf(log_type),
   separator |-> SeparatorOf(log_type),
   datetime_format |-> DatetimeFormatOf(log_type)]

\* The constructor argument None.
None == "<None>"

\* Whether LogParser(log_type) raises: __init__ reads the registry with
\* LOG_TYPES.get(..., {}) and defaults, and has no raise for any argument.
LogParserRaises(log_type) == FALSE

\* LogParser.__init__(log_type): log_type or DEFAULT_LOG_TYPE.
LogParser(log_type) == Configure(IF log_type \in {None, ""} THEN DEFAULT_LOG_TYPE ELSE log_type)

\* ----------------------------------------------------- container sniffing
\* The extension table shared by both sniffers; "" when the extension decides
\* nothing.
FormatOfExtension(ext) ==
  CASE ext \in {".gz", ".gzip"} -> "gzip"
    [] ext \in {".bz2", ".bzip2"} -> "bz2"
    [] ext = ".zip" -> "zip"
    [] ext = ".json" -> "json"
    [] ext = ".xml" -> "xml"
    [] ext = ".csv" -> "csv"
    [] OTHER -> ""

\* The signature the first bytes carry, "" when none.
Magic(src) ==
  CASE src.enc \in {"gzip", "gzbad"} -> "gzip"
    [] src.enc = "bz2" -> "bz2"
    [] src.enc = "zip" -> "zip"
    [] OTHER -> ""

\* The 8-byte header holds a byte outside the text allow-set.
is_binary(src) == src.enc = "binary"

_detect_file_format(src) ==
  IF FormatOfExtension(src.ext) # "" THEN FormatOfExtension(src.ext)
  ELSE IF ~src.exists THEN "plain"
  ELSE IF Magic(src) # "" THEN Magic(src)
  ELSE IF is_binary(src) THEN "binary"
  ELSE LET all == readlines(PlainText(src))
           first_line == IF all = <<>> THEN <<>> ELSE strip(all[1])
       IN  IF (startswith(first_line, BraceAtoms) \/ startswith(first_line, {LB}))
              /\ json_loads(first_line).kind # "JSONDecodeError"
           THEN "json"
           ELSE IF startswith(first_line, AngleAtoms) THEN "xml"
           ELSE IF \E i \in 1..Len(first_line) : first_line[i] = CM THEN "csv"
           ELSE "plain"

_detect_uploaded_file_format(src) ==
  IF FormatOfExtension(src.ext) # "" THEN FormatOfExtension(src.ext)
  ELSE IF Magic(src) # "" THEN Magic(src)
  ELSE IF is_binary(src) THEN "binary"
  ELSE "plain"

\* ------------------------------------------------------------------ decoding
\* What the first branch of the readers computes for file_format: the lines, or
\* an exception.  strip_nl says whether the plain branch drops the newlines
\* (the uploaded reader uses splitlines, the path reader readlines).
Failed == [ok |-> FALSE, lines |-> <<>>]
Read(lines) == [ok |-> TRUE, lines |-> lines]

ReadAs(src, file_format, strip_nl) ==
  CASE file_format \in {"gzip", "bz2"} ->
         IF src.enc = file_format THEN Read(readlines(src.text)) ELSE Failed
    [] file_format = "zip" ->
         IF src.enc = "zip" /\ src.members THEN Read(readlines(src.text)) ELSE Failed
    [] file_format = "json" ->
         LET j == json_loads(Content(PlainText(src)))
         IN  IF j.kind = "JSONDecodeError" THEN Failed
             ELSE IF j.kind = "array" THEN Read(<<<<ToString(j.value["0"].n)>>>>)
             ELSE Read(<<json_dumps(j)>>)
    [] file_format = "xml" ->
         LET x == ET_fromstring(Content(PlainText(src)))
         IN  IF x.ok THEN Read(findall_tostring(x.elem.children)) ELSE Failed
    [] file_format = "csv" ->
         LET rows == csv_reader(readlines(PlainText(src)))
         IN  Read([i \in DOMAIN rows |-> join_comma(rows[i])])
    [] file_format = "binary" -> Read(splitlines(PlainText(src)))
    [] OTHER ->
         Read(IF strip_nl THEN splitlines(PlainText(src)) ELSE readlines(PlainText(src)))

\* open(file_path, ...) raises for a path that cannot be opened, whatever the
\* branch.
OpenAndReadAs(src, file_format) ==
  IF ~src.exists THEN Failed ELSE ReadAs(src, file_format, FALSE)

\* A path reader whose fallback never succeeds.
PlainReadFile_unavailable(src) == Failed

\* The fallback of the path reader: open the same path again and readlines().
PlainReadFile(src) ==
  IF ~src.exists THEN Failed ELSE Read(readlines(PlainText(src)))

\* uploaded_file.read() with the buffer at pos ("start" or "end"): the bytes
\* from pos on, decoded leniently.
BufferRead(src, pos) == IF pos = "start" THEN PlainText(src) ELSE <<>>

\* The fallback of the uploaded reader: seek(0), read, decode, splitlines.  The
\* first attempt left the buffer at its end.
PlainReadUploaded(src) == Read(splitlines(BufferRead(src, "start")))

\* The try / except / except chain of the readers: the format's own read, else
\* the plain-text read, else the empty list.
_read_file_by_format(src, file_format) ==
  LET r == OpenAndReadAs(src, file_format)
      f == PlainReadFile(src)
  IN  IF r.ok THEN r.lines ELSE IF f.ok THEN f.lines ELSE <<>>

_read_uploaded_file_by_format(src, file_format) ==
  LET r == ReadAs(src, file_format, TRUE)
      f == PlainReadUploaded(src)
  IN  IF r.ok THEN r.lines ELSE IF f.ok THEN f.lines ELSE <<>>

\* --------------------------- log_parser.py: _detect_log_format_from_content
\* \d{2}:\d{2}:\d{2}, \w{3}, and one- and two-digit day atoms of a syslog stamp.
TimeAtoms == {"13:55:36"}
MonthAtoms == {"Oct"}
Day2Atoms == {"10"}
Day1Atoms == {"9"}

\* Atoms that are, or end in, a colon, with what precedes the colon.
ColonEnd(a) ==
  CASE a = ":" -> [ends |-> TRUE, before |-> <<>>]
    [] a = "sshd:" -> [ends |-> TRUE, before |-> <<"sshd">>]
    [] OTHER -> [ends |-> FALSE, before |-> <<>>]

\* The parts of a stripped line split at every single space.
Words(line) == split_sep(line, SP)

\* A non-empty token without whitespace: \S+
IsWord(w) == w # <<>> /\ \A i \in 1..Len(w) : w[i] \notin Whitespace

\* Number of parts the stamp `\w{3} [ 0-9]\d \d{2}:\d{2}:\d{2}` takes up in
\* Words(line): 3 for "Oct 10 13:55:36", 4 for "Oct  9 13:55:36", 0 for no match.
SyslogStampWords(w) ==
  IF Len(w) >= 3 /\ w[1] \in {<<a>> : a \in MonthAtoms}
     /\ w[2] \in {<<a>> : a \in Day2Atoms} /\ w[3] \in {<<a>> : a \in TimeAtoms}
  THEN 3
  ELSE IF Len(w) >= 4 /\ w[1] \in {<<a>> : a \in MonthAtoms} /\ w[2] = <<>>
          /\ w[3] \in {<<a>> : a \in Day1Atoms} /\ w[4] \in {<<a>> : a \in TimeAtoms}
  THEN 4
  ELSE 0

\* syslog_pattern of the detector:
\*   ^\w{3} [ 0-9]\d \d{2}:\d{2}:\d{2} \S+ \S+(\[\d+\])?:
\* after the stamp and the host, a token that has a colon after its first
\* character (only colon-ended atoms are in the inputs).
MatchesSyslogDetect(line) ==
  LET w == Words(line)
      n == SyslogStampWords(w)
  IN  /\ n > 0
      /\ Len(w) >= n + 2
      /\ IsWord(w[n + 1])
      /\ IsWord(w[n + 2])
      /\ LET t == w[n + 2]
         IN  \E i \in 1..Len(t) :
               ColonEnd(t[i]).ends /\ (i > 1 \/ ColonEnd(t[i]).before # <<>>)

\* Atoms matching \d+/\w+/\d+:\d+:\d+:\d+ and [+-]\d+ of the detector's date.
ClfDateAtoms == {"10/Oct/2023:13:55:36"}
ClfZoneAtoms == {"-0700"}

\* clf_pattern of the detector:
\*   ^\S+ \S+ \S+ \[date zone\] "\S+ \S+ \S+" \d+ \d+$
MatchesClfDetect(line) ==
  LET w == Words(line)
  IN  /\ Len(w) = 10
      /\ \A i \in 1..3 : IsWord(w[i])
      /\ Len(w[4]) = 2 /\ w[4][1] = LB /\ w[4][2] \in ClfDateAtoms
      /\ Len(w[5]) = 2 /\ w[5][1] \in ClfZoneAtoms /\ w[5][2] = RB
      /\ Len(w[6]) >= 2 /\ w[6][1] = QT /\ IsWord(Tail(w[6]))
      /\ IsWord(w[7])
      /\ Len(w[8]) >= 2 /\ w[8][Len(w[8])] = QT /\ IsWord(w[8])
      /\ \A i \in 9..10 : Len(w[i]) = 1 /\ w[i][1] \in DigitAtoms

\* The if chain of the loop body on one line: the type of the first test the
\* line passes, "" when it passes none.
KeywordCategory(line) ==
  IF re_search("url", line) /\ re_search("status", line) THEN "browsing"
  ELSE IF re_search("virus", line) THEN "virus"
  ELSE IF re_search("mail", line) THEN "mail"
  ELSE IF re_search("firewall", line) THEN "firewall"
  ELSE IF re_search("auth", line) THEN "auth"
  ELSE IF re_search("system", line) THEN "system"
  ELSE IF re_search("application", line) THEN "application"
  ELSE IF re_search("ids", line) THEN "ids"
  ELSE IF re_search("vpn", line) THEN "vpn"
  ELSE ""

\* A keyword loop without its break statements: every matching line assigns.
RECURSIVE keyword_scan_nobreak(_, _)
keyword_scan_nobreak(sample, log_type) ==
  IF sample = <<>> THEN log_type
  ELSE keyword_scan_nobreak(Tail(sample),
         IF KeywordCategory(Head(sample)) # "" THEN KeywordCategory(Head(sample))
         ELSE log_type)

\* The keyword loop: the first sample line that passes a test assigns the type
\* and breaks; no match leaves the type as it was.
RECURSIVE keyword_scan(_, _)
keyword_scan(sample, log_type) ==
  IF sample = <<>> THEN log_type
  ELSE IF KeywordCategory(Head(sample)) # "" THEN KeywordCategory(Head(sample))
  ELSE keyword_scan(Tail(sample), log_type)

\* The structured branches assign log_type and return at once, leaving
\* columns, separator and datetime_format as they were; the keyword branch
\* falls through to the lines that refresh them.
_detect_log_format_from_content(self, sample_lines) ==
  LET first == IF sample_lines = <<>> THEN <<>> ELSE strip(sample_lines[1])
      has == sample_lines # <<>>
  IN  IF has /\ startswith(first, BraceAtoms)
         /\ json_loads(sample_lines[1]).kind # "JSONDecodeError"
      THEN [self EXCEPT !.log_type = "json"]
      ELSE IF has /\ MatchesClfDetect(first)
      THEN [self EXCEPT !.log_type = "clf"]
      ELSE IF has /\ startswith(first, {"#Fields:"})
      THEN [self EXCEPT !.log_type = "elf"]
      ELSE IF has /\ MatchesSyslogDetect(first)
      THEN [self EXCEPT !.log_type = "syslog"]
      ELSE Configure(keyword_scan(sample_lines, self.log_type))

\* ------------------------------------------- log_parser.py: structured parsers
\* The words w[i..j] joined again by the single spaces that separated them.
RECURSIVE JoinWords(_, _, _)
JoinWords(w, i, j) ==
  IF i > j THEN <<>>
  ELSE IF i = j THEN w[i]
  ELSE w[i] \o <<SP>> \o JoinWords(w, i + 1, j)

\* syslog_pattern of the parser:
\*   ^(\w{3} [ 0-9]\d \d{2}:\d{2}:\d{2}) (\S+) (\S+)(?:\[(\d+)\])?: (.*)$
\* (\S+) is greedy and takes a bracketed pid with it, so group 4 stays None;
\* the process token must end in a colon with something before it, and a space
\* must follow the colon.
SyslogRow(line) ==
  LET w == Words(line)
      n == SyslogStampWords(w)
      t == IF n > 0 /\ Len(w) >= n + 3 THEN w[n + 2] ELSE <<>>
      c == IF t = <<>> THEN ColonEnd("") ELSE ColonEnd(t[Len(t)])
      process == IF t = <<>> THEN <<>> ELSE SubSeq(t, 1, Len(t) - 1) \o c.before
  IN  IF n > 0 /\ Len(w) >= n + 3 /\ IsWord(w[n + 1]) /\ IsWord(t)
         /\ c.ends /\ process # <<>>
      THEN <<[timestamp |-> Str(JoinWords(w, 1, n)),
              hostname |-> Str(w[n + 1]),
              process |-> Str(process),
              pid |-> Str(<<>>),
              message |-> Str(JoinWords(w, n + 3, Len(w)))]>>
      ELSE <<>>

RECURSIVE SyslogRows(_)
SyslogRows(lines) ==
  IF lines = <<>> THEN <<>> ELSE SyslogRow(strip(Head(lines))) \o SyslogRows(Tail(lines))

_parse_syslog_format(lines) == Returned(DataFrame(SyslogRows(lines)))

\* A lookup that takes the last part when part i is absent.
PartOr_last(parts, i) ==
  IF Len(parts) >= i THEN parts[i] ELSE IF parts = <<>> THEN <<>> ELSE parts[Len(parts)]

\* request_parts[i] if len(request_parts) > i else ""
PartOr(parts, i) == IF Len(parts) >= i THEN parts[i] ELSE <<>>

\* clf_pattern of the parser:
\*   ^(\S+) (\S+) (\S+) \[([^]]+)\] "([^"]*)" (\d+) (\d+)$
\* s is scanned left to right: three words, the bracketed date up to the first
\* "]", the quoted request up to the next quote, two all-digit words.
ClfRow(s) ==
  LET w == Words(s)
      head == JoinWords(w, 1, 3) \o <<SP>>
      r1 == SubSeq(s, Len(head) + 1, Len(s))
      rb == IndexOf(r1, RB, 1)
      date == SubSeq(r1, 2, rb - 1)
      r2 == SubSeq(r1, rb + 1, Len(r1))
      q2 == IndexOf(SubSeq(r2, 3, Len(r2)), QT, 1)
      request == SubSeq(r2, 3, q2 + 1)
      r3 == SubSeq(r2, q2 + 3, Len(r2))
      ok == /\ Len(w) >= 7
            /\ \A i \in 1..3 : IsWord(w[i])
            /\ r1 # <<>> /\ r1[1] = LB
            /\ rb > 2
            /\ Len(r2) >= 3 /\ r2[1] = SP /\ r2[2] = QT
            /\ q2 > 0
            /\ Len(r3) = 4 /\ r3[1] = SP /\ r3[2] \in DigitAtoms
            /\ r3[3] = SP /\ r3[4] \in DigitAtoms
      request_parts == split(request, 0 - 1)
  IN  IF ok
      THEN <<[host |-> Str(w[1]), ident |-> Str(w[2]), authuser |-> Str(w[3]),
              timestamp |-> Str(date),
              method |-> Str(PartOr(request_parts, 1)),
              path |-> Str(PartOr(request_parts, 2)),
              protocol |-> Str(PartOr(request_parts, 3)),
              status |-> Str(<<r3[2]>>),
              bytes_sent |-> Str(<<r3[4]>>),
              url |-> Str(PartOr(request_parts, 2))]>>
      ELSE <<>>

RECURSIVE ClfRows(_)
ClfRows(lines) ==
  IF lines = <<>> THEN <<>> ELSE ClfRow(strip(Head(lines))) \o ClfRows(Tail(lines))

_parse_common_log_format(lines) == Returned(DataFrame(ClfRows(lines)))

\* The field names of a token sequence, as column names.
RECURSIVE Names(_)
Names(tokens) ==
  IF tokens = <<>> THEN <<>>
  ELSE <<IF Len(Head(tokens)) = 1 THEN Head(tokens)[1] ELSE "?">> \o Names(Tail(tokens))

\* The loop of _parse_extended_log_format, fields being the names in force.
RECURSIVE ElfRows(_, _)
ElfRows(lines, fields) ==
  IF lines = <<>> THEN <<>>
  ELSE LET line == strip(Head(lines))
           rest == Tail(lines)
       IN  IF line = <<>> THEN ElfRows(rest, fields)
           ELSE IF line[1] \in HashAtoms
           THEN IF line[1] = "#Fields:"
                THEN ElfRows(rest, Names(split(strip(Tail(line)), 0 - 1)))
                ELSE ElfRows(rest, fields)
           ELSE IF fields = <<>> THEN ElfRows(rest, fields)
           ELSE LET row == GenericRow(split(line, 0 - 1), 1, fields, EmptyRow)
                    out == IF "cs-uri-stem" \in DOMAIN row
                           THEN [k \in DOMAIN row \cup {"url"} |->
                                   IF k = "url" THEN row["cs-uri-stem"] ELSE row[k]]
                           ELSE row
                IN  (IF row # EmptyRow THEN <<out>> ELSE <<>>) \o ElfRows(rest, fields)

_parse_extended_log_format(lines) == Returned(DataFrame(ElfRows(lines, <<>>)))

\* json.loads of each stripped line; only JSONDecodeError is caught, and every
\* value that loads is appended to data, whatever its kind.
RECURSIVE JsonRows(_)
JsonRows(lines) ==
  IF lines = <<>> THEN <<>>
  ELSE LET j == json_loads(strip(Head(lines)))
       IN  (IF j.kind = "JSONDecodeError" THEN <<>> ELSE <<j>>) \o JsonRows(Tail(lines))

\* pd.DataFrame(data): a list whose first item is a mapping is read as a list
\* of mappings and raises on an item that is none; a list of scalars, or of
\* one-item lists, is one column named 0.
_parse_json_format(lines) ==
  LET data == JsonRows(lines)
  IN  IF data # <<>> /\ data[1].kind = "object"
         /\ \E i \in DOMAIN data : data[i].kind # "object"
      THEN Raised
      ELSE Returned(DataFrame([i \in DOMAIN data |-> data[i].value]))

\* row[child.tag] = child.text for the children of the element of each line.
XmlRow(children) ==
  [k \in {children[i].tag : i \in DOMAIN children} |->
     LET child == children[CHOOSE i \in DOMAIN children :
                    children[i].tag = k /\ \A j \in DOMAIN children : children[j].tag = k => j <= i]
     IN  IF child.text = "" THEN Null ELSE Str(<<child.text>>)]

RECURSIVE XmlRows(_)
XmlRows(lines) ==
  IF lines = <<>> THEN <<>>
  ELSE LET x == ET_fromstring(strip(Head(lines)))
       IN  (IF x.ok /\ x.elem.children # <<>> THEN <<XmlRow(x.elem.children)>> ELSE <<>>)
           \o XmlRows(Tail(lines))

_parse_xml_format(lines) == Returned(DataFrame(XmlRows(lines)))

\* row_dict[header[i]] = value for the values within the header's length.
CsvRow(header, row) ==
  LET n == IF Len(row) < Len(header) THEN Len(row) ELSE Len(header)
  IN  [k \in {header[i] : i \in 1..n} |->
         Str(row[CHOOSE i \in 1..n :
               header[i] = k /\ \A j \in 1..n : header[j] = k => j <= i])]

RECURSIVE CsvRows(_, _)
CsvRows(header, rows) ==
  IF rows = <<>> THEN <<>>
  ELSE (IF CsvRow(header, Head(rows)) # EmptyRow THEN <<CsvRow(header, Head(rows))>> ELSE <<>>)
       \o CsvRows(header, Tail(rows))

_parse_csv_format(lines) ==
  LET rows == csv_reader(lines)
  IN  IF rows = <<>> \/ rows[1] = <<>> THEN Returned(DataFrame(<<>>))
      ELSE Returned(DataFrame(CsvRows(Names(rows[1]), Tail(rows))))

\* ------------------------------------------------- log_parser.py: entry points
\* The if / elif chain of parse_file; it has no branch for "application".
DispatchFile(self, lines) ==
  CASE self.log_type = "browsing" -> _parse_browsing_logs(lines)
    [] self.log_type = "virus" -> _parse_virus_logs(lines)
    [] self.log_type = "mail" -> _parse_mail_logs(lines)
    [] self.log_type = "firewall" -> _parse_firewall_logs(lines)
    [] self.log_type = "auth" -> _parse_auth_logs(lines)
    [] self.log_type = "system" -> _parse_system_logs(lines)
    [] self.log_type = "ids" -> _parse_ids_logs(lines)
    [] self.log_type = "vpn" -> _parse_vpn_logs(lines)
    [] self.log_type = "syslog" -> _parse_syslog_format(lines)
    [] self.log_type = "clf" -> _parse_common_log_format(lines)
    [] self.log_type = "elf" -> _parse_extended_log_format(lines)
    [] self.log_type = "json" -> _parse_json_format(lines)
    [] self.log_type = "xml" -> _parse_xml_format(lines)
    [] self.log_type = "csv" -> _parse_csv_format(lines)
    [] OTHER -> _parse_generic_logs(self, lines)

\* The if / elif chain of parse_uploaded_file.
DispatchUploaded(self, lines) ==
  IF self.log_type = "application" THEN _parse_application_logs(lines)
  ELSE DispatchFile(self, lines)

\* An except clause that hands the exception on to the caller.
HandleException_reraise(self, r) == r

\* The except clause of both entry points: an exception raised in the try
\* body becomes an empty table with the instance's columns.
HandleException(self, r) ==
  IF r.raised THEN Returned(EmptyDataFrame(self.columns)) ELSE r

\* Lines 49-55 of parse_file: with the default type set, ask detect_log_type
\* and reconfigure when it answers another type.
ResolveByPath(self, src) ==
  IF self.log_type = DEFAULT_LOG_TYPE /\ detect_log_type(src) # self.log_type
  THEN Configure(detect_log_type(src))
  ELSE self

\* Lines 62-63 of parse_file: the content classifier runs only while the type
\* is still the default.
ResolveByContent(self, lines) ==
  IF self.log_type = DEFAULT_LOG_TYPE
  THEN _detect_log_format_from_content(self, Take(lines, ContentSampleLines))
  ELSE self

\* A parse_file that picks its parser from the type it had before the content
\* classifier ran.
parse_file_stale(self, src) ==
  LET s1 == ResolveByPath(self, src)
      lines == _read_file_by_format(src, _detect_file_format(src))
      s2 == ResolveByContent(s1, lines)
  IN  [self |-> s2, lines |-> lines,
       result |-> HandleException(s2, DispatchFile(s1, lines))]

\* parse_file(file_path): the instance afterwards, the lines it decoded and
\* what the caller gets.
parse_file(self, src) ==
  LET s1 == ResolveByPath(self, src)
      lines == _read_file_by_format(src, _detect_file_format(src))
      s2 == ResolveByContent(s1, lines)
  IN  [self |-> s2, lines |-> lines,
       result |-> HandleException(s2, DispatchFile(s2, lines))]

\* parse_uploaded_file(uploaded_file): the content classifier always runs.
parse_uploaded_file(self, src) ==
  LET lines == _read_uploaded_file_by_format(src, _detect_uploaded_file_format(src))
      s2 == _detect_log_format_from_content(self, Take(lines, ContentSampleLines))
  IN  [self |-> s2, lines |-> lines,
       result |-> HandleException(s2, DispatchUploaded(s2, lines))]

\* ------------------------------------------------------------------- inputs
\* A browsing line with an integer timestamp and surplus tokens after the
\* ninth, the second of them after two spaces.
BrowsingLine ==
  <<"1704067200", SP, "10.0.0.1", SP, "alice", SP, "http://a.com/x", SP, "2048", SP,
    "200", SP, "text/html", SP, "News", SP, "Mozilla/5", SP, "extra", SP, SP, "tokens">>

\* A browsing line of nine tokens whose timestamp is a date, not an integer.
BadTimestampLine ==
  <<"2024-01-01", SP, "10.0.0.1", SP, "alice", SP, "http://a.com/x", SP, "2048", SP,
    "200", SP, "text/html", SP, "News", SP, "Mozilla/5">>

\* An application line of eight tokens, two spaces before the last.
ApplicationLine ==
  <<"1704067200", SP, "app1", SP, "ERROR", SP, "comp", SP, "t1", SP, "r1", SP,
    "disk", SP, SP, "full">>

\* One JSON object on a line: a single token, with a virus keyword in it.
SampleLines == {BrowsingLine, BadTimestampLine, ApplicationLine, JsonObjectText}

Texts == SeqsUpTo(SampleLines, MaxLines)

Source(ext, enc, exists, utf8, text) ==
  [ext |-> ext, enc |-> enc, exists |-> exists, utf8 |-> utf8, members |-> TRUE,
   text |-> text]

\* A plain-text log file F and its gzip-compressed copy F.gz.
PlainFile(text) == Source(".log", "plain", TRUE, TRUE, text)
GzipOf(src) == [src EXCEPT !.ext = ".gz", !.enc = "gzip", !.utf8 = FALSE]

\* A path that cannot be opened; bytes that are no text; a file named .gz that
\* is not gzip; a gzip stream cut short; a zip archive without members.
MissingFile == Source(".log", "plain", FALSE, TRUE, <<>>)
BinaryFile == Source(".log", "binary", TRUE, FALSE, <<ApplicationLine>>)
MisnamedFile == Source(".gz", "plain", TRUE, TRUE, <<BrowsingLine>>)
CorruptGzip == Source(".log", "gzbad", TRUE, FALSE, <<>>)
EmptyZip == [Source(".zip", "zip", TRUE, FALSE, <<>>) EXCEPT !.members = FALSE]

\* The lines of a .csv file: a header of two names, then rows of which one has
\* a quoted field with a comma in it, one is shorter than the header, one is
\* as long as the header and one is empty.
CsvHeaderLine == <<"a", CM, "b">>
CsvQuotedLine == <<QT, "x", CM, "y", QT, CM, "z">>
CsvShortLine == <<"x">>
CsvPlainLine == <<"x", CM, "z">>
CsvDataLines == {CsvQuotedLine, CsvShortLine, CsvPlainLine, <<>>}
CsvFiles ==
  {Source(".csv", "plain", TRUE, TRUE, <<CsvHeaderLine>> \o t) :
     t \in SeqsUpTo(CsvDataLines, MaxLines)}

\* A well-formed .xml file: the serialisation of a root, on one line.
XmlFile(root) == Source(".xml", "plain", TRUE, TRUE, <<<<tostring(root)>>>>)
XmlFiles == {XmlFile(root) : root \in XmlRoots}

PlainFiles == {PlainFile(t) : t \in Texts}
Files ==
  PlainFiles \cup {GzipOf(f) : f \in PlainFiles} \cup CsvFiles \cup XmlFiles
    \cup {MissingFile, BinaryFile, MisnamedFile, CorruptGzip, EmptyZip}

\* An uploaded buffer always has bytes to read.
Uploads == {f \in Files : f.exists}

\* What a caller may pass to LogParser(): nothing, a registered type, or a
\* type the registry does not know.
DeclaredTypes == {None, "custom"} \cup DOMAIN LOG_TYPES

\* ------------------------------------------------------ auth.py: the session
AUTH_TIMEOUT == 3600

\* A reading of time.time() at which the clock of a run starts.
Epoch == 1704067200

\* st.session_state: logged_in, username, user_role, login_time and, when the
\* key is there, log_data.  NoTime is the login_time None.
NoTime == 0
NoKey == "<no key>"
LoggedOutState(log_data) ==
  [logged_in |-> FALSE, username |-> None, user_role |-> None, login_time |-> NoTime,
   log_data |-> log_data]

\* The login form on success, at time t.
login(state, user, role, t) ==
  [state EXCEPT !.logged_in = TRUE, !.username = user, !.user_role = role, !.login_time = t]

\* logout_user(): the session state it leaves.
logout_user(state) ==
  IF state.logged_in
  THEN [state EXCEPT !.logged_in = FALSE, !.username = None, !.user_role = None,
                     !.login_time = NoTime,
                     !.log_data = IF @ = NoKey THEN NoKey ELSE None]
  ELSE state

\* A check that never refreshes login_time: the session ends AUTH_TIMEOUT after
\* the login.
check_session_validity_fixed(state, t) ==
  IF state.logged_in /\ state.login_time # NoTime
  THEN IF t - state.login_time > AUTH_TIMEOUT
       THEN [state |-> logout_user(state), result |-> "rerun"]
       ELSE [state |-> state, result |-> "True"]
  ELSE [state |-> state, result |-> "False"]

\* check_session_validity() at time t: the session state it leaves and what it
\* returns; on expiry logout_user ends in st.rerun(), which leaves the call by
\* an exception that restarts the script ("rerun").
check_session_validity(state, t) ==
  IF state.logged_in /\ state.login_time # NoTime
  THEN IF t - state.login_time > AUTH_TIMEOUT
       THEN [state |-> logout_user(state), result |-> "rerun"]
       ELSE [state |-> [state EXCEPT !.login_time = t], result |-> "True"]
  ELSE [state |-> state, result |-> "False"]

\* check_user_role(required_role) at time t.
check_user_role(state, required_role, t) ==
  IF ~state.logged_in THEN [state |-> state, result |-> "False"]
  ELSE LET valid == check_session_validity(state, t)
       IN  IF valid.result # "True"
           THEN [state |-> valid.state,
                 result |-> IF valid.result = "rerun" THEN "rerun" ELSE "False"]
           ELSE IF valid.state.user_role = "admin"
           THEN [state |-> valid.state, result |-> "True"]
           ELSE [state |-> valid.state,
                 result |-> IF valid.state.user_role = required_role THEN "True"
                            ELSE "False"]

\* ------------------------------------------------------------ state machine
\* One LogParser instance used by one caller.  A call runs to completion on the
\* calling thread (pc "returned"); the caller then takes the table, which it
\* owns from there on, and the instance is left with its settings (pc "idle").
NoSource == MissingFile
NoOutcome == Returned(EmptyDataFrame(<<>>))

VARIABLES
  declared,   \* the argument the LogParser was constructed with
  self,       \* the instance: log_type, columns, separator, datetime_format
  fresh,      \* the call being returned is the first the instance served
  pc,         \* "idle" between calls, "returned" when a call has returned
  entry,      \* the entry point of that call
  source,     \* its source
  lines,      \* the lines it decoded
  outcome,    \* what it handed to the caller: [raised, df]
  workers,    \* the worker threads of a pool, each in its process_file call
  instances,  \* the LogParser each worker constructed
  called,     \* the method or function called on its own, "" before any call
  args,       \* the arguments of that call
  ret,        \* what it returned
  session_state,  \* st.session_state of a browser session
  now         \* the clock of that session: what time.time() returns

vars ==
  <<declared, self, fresh, pc, entry, source, lines, outcome, workers, instances,
    called, args, ret, session_state, now>>

\* No browser session is open.
NoSession == session_state = LoggedOutState(None) /\ now = Epoch

\* No method has been called on its own.
NoCall == called = "" /\ args = <<>> /\ ret = <<>>

\* ------------------------------------------------------------- worker pool
\* benchmark_concurrent_processing: every worker thread runs process_file,
\* which constructs its own LogParser and calls parse_file on it.
MaxWorkers == 2
Workers == 1..MaxWorkers

\* The (file_path, log_type) pairs handed to the pool.
PoolTypes == {None, "virus"}
PoolFiles ==
  {PlainFile(<<JsonObjectText>>), GzipOf(PlainFile(<<JsonObjectText>>)),
   PlainFile(<<BrowsingLine, BadTimestampLine>>)}

\* A LogParser shared by every worker.
SharedInstance(w) == 1

\* parser = LogParser(log_type=log_type) inside process_file: one per worker.
InstanceOf(w) == w

\* A worker before its call, and the pool before any submit.
Submitted(log_type, file) ==
  [pc |-> "submitted", log_type |-> log_type, file |-> file, lines |-> <<>>,
   resolved |-> "", result |-> NoOutcome, overlapped |-> FALSE]
NoPool == [w \in Workers |-> Submitted(None, NoSource)]
NoInstances == [w \in Workers |-> LogParser(None)]

Init ==
  /\ declared \in DeclaredTypes
  /\ self = LogParser(declared)
  /\ fresh = TRUE
  /\ pc = "idle"
  /\ entry = ""
  /\ source = NoSource
  /\ lines = <<>>
  /\ outcome = NoOutcome
  /\ workers = NoPool
  /\ instances = NoInstances
  /\ NoCall
  /\ NoSession

ParseFile ==
  /\ pc = "idle"
  /\ \E src \in Files :
       LET call == parse_file(self, src)
       IN  /\ self' = call.self
           /\ source' = src
           /\ lines' = call.lines
           /\ outcome' = call.result
  /\ pc' = "returned"
  /\ entry' = "parse_file"
  /\ UNCHANGED <<declared, fresh, workers, instances, called, args, ret, session_state, now>>

ParseUploadedFile ==
  /\ pc = "idle"
  /\ \E src \in Uploads :
       LET call == parse_uploaded_file(self, src)
       IN  /\ self' = call.self
           /\ source' = src
           /\ lines' = call.lines
           /\ outcome' = call.result
  /\ pc' = "returned"
  /\ entry' = "parse_uploaded_file"
  /\ UNCHANGED <<declared, fresh, workers, instances, called, args, ret, session_state, now>>

TakeResult ==
  /\ pc = "returned"
  /\ pc' = "idle"
  /\ fresh' = FALSE
  /\ entry' = ""
  /\ source' = NoSource
  /\ lines' = <<>>
  /\ outcome' = NoOutcome
  /\ UNCHANGED <<declared, self, workers, instances, called, args, ret, session_state, now>>

Next == ParseFile \/ ParseUploadedFile \/ TakeResult

Spec == Init /\ [][Next]_vars

\* ------------------------------------------------- worker pool: the threads
\* The pool runs one process_file per worker; the threads interleave between
\* the statements of parse_file.
InitPool ==
  /\ declared = None
  /\ self = LogParser(None)
  /\ fresh = TRUE
  /\ pc = "idle"
  /\ entry = ""
  /\ source = NoSource
  /\ lines = <<>>
  /\ outcome = NoOutcome
  /\ workers \in [Workers -> {Submitted(t, f) : t \in PoolTypes, f \in PoolFiles}]
  /\ instances = NoInstances
  /\ NoCall
  /\ NoSession

\* Another worker is inside its parse_file call.
Overlaps(w) ==
  \E v \in Workers \ {w} : workers[v].pc \notin {"submitted", "done"}

Step(w, from) ==
  /\ workers[w].pc = from
  /\ UNCHANGED <<declared, self, fresh, pc, entry, source, lines, outcome>>
  /\ UNCHANGED <<called, args, ret, session_state, now>>

Advance(w, to, fields) ==
  [workers EXCEPT ![w] = fields @@ [pc |-> to, overlapped |-> @.overlapped \/ Overlaps(w)] @@ @]

\* process_file: parser = LogParser(log_type=log_type).
Construct(w) ==
  /\ Step(w, "submitted")
  /\ instances' = [instances EXCEPT ![InstanceOf(w)] = LogParser(workers[w].log_type)]
  /\ workers' = Advance(w, "constructed", [lines |-> <<>>])

\* parse_file, lines 49-55.
ResolveType(w) ==
  /\ Step(w, "constructed")
  /\ instances' = [instances EXCEPT ![InstanceOf(w)] = ResolveByPath(@, workers[w].file)]
  /\ workers' = Advance(w, "resolved", [lines |-> <<>>])

\* parse_file, lines 58-59.
ReadFile(w) ==
  /\ Step(w, "resolved")
  /\ workers' = Advance(w, "read",
        [lines |-> _read_file_by_format(workers[w].file, _detect_file_format(workers[w].file))])
  /\ UNCHANGED instances

\* parse_file, lines 62-63.
ClassifyContent(w) ==
  /\ Step(w, "read")
  /\ instances' = [instances EXCEPT ![InstanceOf(w)] = ResolveByContent(@, workers[w].lines)]
  /\ workers' = Advance(w, "classified", [lines |-> workers[w].lines])

\* parse_file, lines 65-102: the dispatch and the except clause.
DispatchParser(w) ==
  /\ Step(w, "classified")
  /\ LET inst == instances[InstanceOf(w)]
     IN  workers' = Advance(w, "done",
           [resolved |-> inst.log_type,
            result |-> HandleException(inst, DispatchFile(inst, workers[w].lines))])
  /\ UNCHANGED instances

NextPool ==
  \E w \in Workers :
    \/ Construct(w)
    \/ ResolveType(w)
    \/ ReadFile(w)
    \/ ClassifyContent(w)
    \/ DispatchParser(w)

SpecPool == InitPool /\ [][NextPool]_vars

\* ------------------------------------------- methods called on their own
\* One method or function of the package called directly with arguments from
\* a bounded set; the caller then drops the result and may call again.
MaxSample == 2

InitCalls ==
  /\ declared = None
  /\ self = LogParser(None)
  /\ fresh = TRUE
  /\ pc = "idle"
  /\ entry = ""
  /\ source = NoSource
  /\ lines = <<>>
  /\ outcome = NoOutcome
  /\ workers = NoPool
  /\ instances = NoInstances
  /\ NoCall
  /\ NoSession

Invoke(name, a, r) ==
  /\ called = ""
  /\ called' = name
  /\ args' = a
  /\ ret' = r
  /\ UNCHANGED <<declared, self, fresh, pc, entry, source, lines, outcome, workers, instances>>
  /\ UNCHANGED <<session_state, now>>

DropResult ==
  /\ called # ""
  /\ called' = ""
  /\ args' = <<>>
  /\ ret' = <<>>
  /\ UNCHANGED <<declared, self, fresh, pc, entry, source, lines, outcome, workers, instances>>
  /\ UNCHANGED <<session_state, now>>

\* A line with a virus keyword and nothing else of note.
VirusLine == <<"scan", SP, "found", SP, "virus.exe">>

\* A line with keywords of three categories, the highest-priority one last.
MixedLine == <<"ERROR", SP, "DENY", SP, "virus">>

\* Sample lines for the content classifier.
ClassifierLines ==
  {JsonObjectText, JsonArrayText, VirusLine, ApplicationLine, BrowsingLine, MixedLine}

\* self._detect_log_format_from_content(sample_lines) on an instance of any
\* of a few types.
CallClassifier ==
  \E t \in {None, "virus", "csv"}, sample \in SeqsUpTo(ClassifierLines, MaxSample) :
    Invoke("_detect_log_format_from_content",
           [self |-> LogParser(t), sample_lines |-> sample],
           _detect_log_format_from_content(LogParser(t), sample))

\* All-digit strings of 3, 4, 10 and 14 characters, a date, a date and time,
\* and ints.
TenDigitAtoms == {"1704067200"}
Timestamps ==
  {Str(<<a>>) : a \in DigitAtoms \cup {"2024-01-01", "-5"}}
    \cup {Str(<<"2024-01-01", SP, "00:00:00">>)}
    \cup {Num(n) : n \in {0, 200, 1704067200}}

\* format_timestamp(timestamp, log_type).
CallFormatTimestamp ==
  \E timestamp \in Timestamps, log_type \in DOMAIN LOG_TYPES \cup {"custom"} :
    Invoke("format_timestamp", [timestamp |-> timestamp, log_type |-> log_type],
           format_timestamp(timestamp, log_type))

\* A browsing line as generate_browsing_logs writes it: the timestamp is a
\* date and a time with a space between them.
GeneratedBrowsingLine ==
  <<"2024-01-01", SP, "00:00:00", SP, "10.0.0.1", SP, "alice", SP, "http://a.com/x?y=1",
    SP, "2048", SP, "200", SP, "text/html", SP, "News", SP, "Mozilla/5", SP, "extra", SP,
    "tokens", SP, "here">>

\* self._parse_browsing_logs(lines).
CallBrowsingParser ==
  \E ls \in SeqsUpTo({GeneratedBrowsingLine, BrowsingLine, BadTimestampLine, VirusLine},
                     MaxSample) :
    Invoke("_parse_browsing_logs", [lines |-> ls], _parse_browsing_logs(ls))

\* A line `host ident authuser [date] "request" status bytes` around a request.
ClfLine(request) ==
  <<"10.0.0.1", SP, "-", SP, "alice", SP, LB, "10/Oct/2023:13:55:36", SP, "-0700", RB,
    SP, QT>> \o request \o <<QT, SP, "200", SP, "2048">>

\* Requests of zero to four tokens, one with two spaces between tokens.
ClfRequests ==
  {<<>>, <<"GET">>, <<"GET", SP, "/a">>, <<"GET", SP, "/a", SP, "HTTP/1.1">>,
   <<"GET", SP, SP, "/a", SP, "HTTP/1.1", SP, "x">>}

\* Lines that do not have the shape: a browsing line, and a line whose byte
\* count is a dash.
NotClfLines ==
  {BrowsingLine,
   <<"10.0.0.1", SP, "-", SP, "alice", SP, LB, "10/Oct/2023:13:55:36", SP, "-0700", RB,
     SP, QT, "GET", SP, "/a", QT, SP, "200", SP, "-">>}

\* self._parse_common_log_format(lines).
CallClfParser ==
  \E ls \in SeqsUpTo({ClfLine(r) : r \in ClfRequests} \cup NotClfLines, MaxSample) :
    Invoke("_parse_common_log_format", [lines |-> ls], _parse_common_log_format(ls))

\* Syslog lines as generate_syslog_format writes them, with a bracketed pid
\* after the process name, and one without a pid.
SyslogPidLine ==
  <<"Oct", SP, "10", SP, "13:55:36", SP, "server1", SP, "sshd", LB, "1234", RB, ":", SP,
    "Connection", SP, "established">>
SyslogNoPidLine ==
  <<"Oct", SP, "10", SP, "13:55:36", SP, "server1", SP, "sshd:", SP, "Service", SP,
    "started">>

\* self._parse_syslog_format(lines).
CallSyslogParser ==
  \E ls \in SeqsUpTo({SyslogPidLine, SyslogNoPidLine, BrowsingLine, VirusLine}, MaxSample) :
    Invoke("_parse_syslog_format", [lines |-> ls], _parse_syslog_format(ls))

\* Two #Fields: directives with different names, another directive, and a
\* data line of four tokens.
MaxElfLines == 3
ElfFieldsLine == <<"#Fields:", SP, "date", SP, "cs-uri-stem">>
ElfOtherFieldsLine == <<"#Fields:", SP, "time", SP, "c-ip", SP, "sc-status">>
ElfVersionLine == <<"#Version:", SP, "1.0">>
ElfDataLine == <<"2024-01-01", SP, "/x", SP, "extra", SP, SP, "more">>

\* self._parse_extended_log_format(lines).
CallElfParser ==
  \E ls \in SeqsUpTo({ElfFieldsLine, ElfOtherFieldsLine, ElfVersionLine, ElfDataLine},
                     MaxElfLines) :
    Invoke("_parse_extended_log_format", [lines |-> ls], _parse_extended_log_format(ls))

\* Lines for the JSON parser: an object, text that is no JSON, a number and
\* an array.
JsonLines == {JsonObjectText, <<"{bad">>, <<"200">>, JsonArrayText}

\* Line sequences whose loaded values pandas reads as a list of mappings or as
\* one column: the first value is an object, or all values are of one kind.
JsonSamples ==
  {s \in SeqsUpTo(JsonLines, MaxSample) :
     LET data == JsonRows(s)
     IN  data = <<>> \/ data[1].kind = "object"
           \/ \A i \in DOMAIN data : data[i].kind = data[1].kind}

\* self._parse_json_format(lines)
CallJsonParser ==
  \E sample \in JsonSamples :
    Invoke("_parse_json_format", [lines |-> sample], _parse_json_format(sample))

\* A line of two tokens, fewer than any fixed-field grammar has columns.
ShortLine == <<"1704067200", SP, "app1">>

\* self._parse_generic_logs(lines) on an instance that has the settings of a
\* fixed-field type.
CallGenericParser ==
  \E t \in {"application", "browsing"},
     sample \in SeqsUpTo({ApplicationLine, BrowsingLine, ShortLine}, MaxSample) :
    Invoke("_parse_generic_logs", [self |-> LogParser(t), lines |-> sample],
           _parse_generic_logs(LogParser(t), sample))

\* A second browsing line of exactly nine tokens and an integer timestamp.
OtherBrowsingLine ==
  <<"1704067200", SP, "10.0.0.2", SP, "bob", SP, "http://a.com/x", SP, "2048", SP,
    "200", SP, "text/html", SP, "News", SP, "Mozilla/5">>

\* The chunk loop of benchmark_large_file_processing: the lines are gathered
\* chunk_size at a time, each full chunk is parsed on its own and so is the
\* remainder.
MaxChunkLines == 3

RECURSIVE Chunks(_, _)
Chunks(file_lines, chunk_size) ==
  IF file_lines = <<>> THEN <<>>
  ELSE IF Len(file_lines) <= chunk_size THEN <<file_lines>>
  ELSE <<SubSeq(file_lines, 1, chunk_size)>>
         \o Chunks(SubSeq(file_lines, chunk_size + 1, Len(file_lines)), chunk_size)

\* parser._parse_browsing_logs(lines) for each chunk of a file, in turn.
CallBrowsingParserInChunks ==
  \E ls \in SeqsUpTo({BrowsingLine, OtherBrowsingLine, BadTimestampLine, ShortLine},
                     MaxChunkLines),
     chunk_size \in 1..MaxChunkLines :
    Invoke("_parse_browsing_logs per chunk", [lines |-> ls, chunk_size |-> chunk_size],
           [i \in DOMAIN Chunks(ls, chunk_size) |->
              _parse_browsing_logs(Chunks(ls, chunk_size)[i])])

\* ------------------------------------------- performance.py: the disk cache
\* The cache directory: for each .pkl file in it, its modification time
\* (seconds) and its size (bytes).
CACHE_EXPIRATION == 3600
MAX_CACHE_SIZE == 100 * 1024 * 1024

MaxCacheFiles == 3
CacheNames == 1..MaxCacheFiles
CacheTimes == {Epoch, Epoch + 1800, Epoch + 3600}
CacheSizes == {30 * 1024 * 1024, 60 * 1024 * 1024}
CacheDirs ==
  UNION {[names -> [mtime : CacheTimes, size : CacheSizes]] : names \in SUBSET CacheNames}

\* sum(os.path.getsize(f) for f in cache_files)
RECURSIVE SumSizes(_, _)
SumSizes(cache_files, names) ==
  IF names = {} THEN 0
  ELSE LET f == CHOOSE f \in names : TRUE
       IN  cache_files[f].size + SumSizes(cache_files, names \ {f})

total_size(cache_files) == SumSizes(cache_files, DOMAIN cache_files)

\* cache_files.sort(key=os.path.getmtime): the sort is stable, so files of equal
\* modification time stay in the order os.listdir gave them, which is any.
SortedByMtime(cache_files) ==
  {o \in [1..Cardinality(DOMAIN cache_files) -> DOMAIN cache_files] :
     /\ \A i, j \in DOMAIN o : i # j => o[i] # o[j]
     /\ \A i, j \in DOMAIN o : i < j => cache_files[o[i]].mtime <= cache_files[o[j]].mtime}

\* os.remove(file_to_remove), which is taken to succeed.
os_remove(cache_files, f) == [g \in DOMAIN cache_files \ {f} |-> cache_files[g]]

\* A removal loop that stops as soon as the total is within MAX_CACHE_SIZE.
RECURSIVE evict_to_limit(_, _, _)
evict_to_limit(cache_files, sorted, total) ==
  IF total > MAX_CACHE_SIZE /\ sorted # <<>>
  THEN evict_to_limit(os_remove(cache_files, Head(sorted)), Tail(sorted),
                      total - cache_files[Head(sorted)].size)
  ELSE cache_files

\* The while loop: total_size > MAX_CACHE_SIZE * 0.8 is 5 * total > 4 * MAX.
RECURSIVE evict(_, _, _)
evict(cache_files, sorted, total) ==
  IF 5 * total > 4 * MAX_CACHE_SIZE /\ sorted # <<>>
  THEN evict(os_remove(cache_files, Head(sorted)), Tail(sorted),
             total - cache_files[Head(sorted)].size)
  ELSE cache_files

\* manage_cache_size() on a directory whose files sort into the given order:
\* the directory it leaves.
manage_cache_size(cache_files, sorted) ==
  IF total_size(cache_files) > MAX_CACHE_SIZE /\ DOMAIN cache_files # {}
  THEN evict(cache_files, sorted, total_size(cache_files))
  ELSE cache_files

CallManageCacheSize ==
  /\ called = ""
  /\ \E cache_files \in CacheDirs :
       \E sorted \in SortedByMtime(cache_files) :
         Invoke("manage_cache_size", [cache_files |-> cache_files],
                manage_cache_size(cache_files, sorted))

\* The wrapper of cache_to_disk for a call with the cache key of file
\* cache_file at time t, the pickled result being of the given size: an
\* unexpired cache file is loaded; otherwise the result is written and
\* manage_cache_size runs.
CallCacheToDisk ==
  /\ called = ""
  /\ \E cache_files \in CacheDirs, cache_file \in CacheNames,
        t \in {Epoch + 3600, Epoch + 5400}, size \in CacheSizes :
       LET hit == /\ cache_file \in DOMAIN cache_files
                  /\ t - cache_files[cache_file].mtime < CACHE_EXPIRATION
           written == [f \in DOMAIN cache_files \cup {cache_file} |->
                         IF f = cache_file THEN [mtime |-> t, size |-> size]
                         ELSE cache_files[f]]
       IN  \E sorted \in SortedByMtime(written) :
             Invoke("cache_to_disk",
                    [cache_files |-> cache_files, cache_file |-> cache_file, now |-> t,
                     size |-> size],
                    IF hit THEN cache_files ELSE manage_cache_size(written, sorted))

NextCalls ==
  \/ CallClassifier
  \/ CallManageCacheSize
  \/ CallCacheToDisk
  \/ CallBrowsingParserInChunks
  \/ CallGenericParser
  \/ CallJsonParser
  \/ CallElfParser
  \/ CallSyslogParser
  \/ CallClfParser
  \/ CallFormatTimestamp
  \/ CallBrowsingParser
  \/ DropResult

SpecCalls == InitCalls /\ [][NextCalls]_vars

\* --------------------------------------------- one browser session over time
\* The session state of one browser session, the clock, and the functions of
\* auth.py called as the pages call them; called, args and ret hold the call
\* that has just returned.
MaxTicks == 3
TickSteps == {1800, 1801}
Roles == {"admin", "analyst"}
RequiredRoles == Roles \cup {"viewer"}

InitSession ==
  /\ declared = None
  /\ self = LogParser(None)
  /\ fresh = TRUE
  /\ pc = "idle"
  /\ entry = ""
  /\ source = NoSource
  /\ lines = <<>>
  /\ outcome = NoOutcome
  /\ workers = NoPool
  /\ instances = NoInstances
  /\ NoCall
  /\ session_state \in {LoggedOutState(None), LoggedOutState(NoKey)}
  /\ now = Epoch

\* A step of the session that is no call of auth.py's functions.
SessionStep ==
  /\ called = ""
  /\ UNCHANGED <<declared, self, fresh, pc, entry, source, lines, outcome, workers, instances>>
  /\ UNCHANGED <<called, args, ret>>

\* A call f(a) of auth.py that leaves the state r.state and returns r.result.
SessionCall(name, a, r) ==
  /\ called = ""
  /\ called' = name
  /\ args' = a
  /\ ret' = r.result
  /\ session_state' = r.state
  /\ UNCHANGED <<declared, self, fresh, pc, entry, source, lines, outcome, workers, instances>>
  /\ UNCHANGED now

\* Time passes.
Tick ==
  /\ SessionStep
  /\ \E d \in TickSteps : now + d <= Epoch + MaxTicks * 1801 /\ now' = now + d
  /\ UNCHANGED session_state

\* The login form accepts the credentials.
LoginUser ==
  /\ SessionStep
  /\ ~session_state.logged_in
  /\ \E role \in Roles :
       session_state' = login(session_state, "demo@example.com", role, now)
  /\ UNCHANGED now

\* A page stores a table: st.session_state.log_data = optimized_df.
StoreLogData ==
  /\ SessionStep
  /\ session_state.logged_in
  /\ session_state' = [session_state EXCEPT !.log_data = "data"]
  /\ UNCHANGED now

CallCheckSessionValidity ==
  SessionCall("check_session_validity", [session_state |-> session_state, now |-> now],
              check_session_validity(session_state, now))

CallCheckUserRole ==
  \E required_role \in RequiredRoles :
    SessionCall("check_user_role",
                [session_state |-> session_state, now |-> now,
                 required_role |-> required_role],
                check_user_role(session_state, required_role, now))

\* The logout button.
CallLogoutUser ==
  SessionCall("logout_user", [session_state |-> session_state, now |-> now],
              [state |-> logout_user(session_state),
               result |-> IF session_state.logged_in THEN "rerun" ELSE "None"])

NextSession ==
  \/ Tick
  \/ LoginUser
  \/ StoreLogData
  \/ CallCheckSessionValidity
  \/ CallCheckUserRole
  \/ CallLogoutUser
  \/ DropResult

SpecSession == InitSession /\ [][NextSession]_vars

\* The same call made on instance s: what the caller would get.
Call(e, s, src) ==
  IF e = "parse_file" THEN parse_file(s, src) ELSE parse_uploaded_file(s, src)

\* The parser the call dispatched to, applied to the lines it decoded.
Dispatched ==
  IF entry = "parse_file" THEN DispatchFile(self, lines) ELSE DispatchUploaded(self, lines)

\* Whitespace tokens of a line.
Tokens(line) == split(strip(line), 0 - 1)

\* Number of decoded lines with at least n whitespace tokens.
LongLines(n) == Cardinality({i \in DOMAIN lines : Len(Tokens(lines[i])) >= n})

\* ------------------------------------------------------------------- claims
\* C1: parse_file and parse_uploaded_file always hand the caller a table, never
\* an exception, whatever the source and the declared type; when the source
\* gave no lines the table has no records.
C1_AlwaysATable ==
  pc = "returned" =>
    /\ ~outcome.raised
    /\ lines = <<>> => outcome.df.rows = <<>>

\* C1 witness: a parser raised inside the call and the caller still got a table.
C1_Witness ==
  /\ pc = "returned"
  /\ Dispatched.raised
  /\ ~outcome.raised

\* C2: with the browsing grammar, a line of at least 9 tokens whose timestamp is
\* not an integer does not lose the batch: the table has one record for every
\* line with at least 9 tokens.
C2_BadTimestampKeepsBatch ==
  (pc = "returned" /\ self.log_type = "browsing") =>
    Len(outcome.df.rows) = LongLines(Len(LOG_TYPES["browsing"].columns))

\* C3: a declared type that is in the registry is the type the call is parsed
\* as, whatever the content.
C3_DeclaredTypeWins ==
  (pc = "returned" /\ declared \in DOMAIN LOG_TYPES) => self.log_type = declared

C5_Independent ==
  pc = "returned" => outcome = Call(entry, LogParser(declared), source).result

\* C6: parse_file on the gzip copy of a plain-text file resolves the same log
\* type and returns the same table as on the file itself, for a new instance of
\* any declared type.
C6_CompressionTransparent ==
  (pc = "returned" /\ fresh /\ entry = "parse_file" /\ source \in PlainFiles) =>
    LET gz == parse_file(LogParser(declared), GzipOf(source))
    IN  gz.result = outcome /\ gz.self.log_type = self.log_type

\* C7: in a pool where every worker has its own LogParser, a parse_file call
\* that ran interleaved with the others resolved the type and returned the
\* table it resolves and returns when it runs alone.
C7_ConcurrentAsAlone ==
  \A w \in Workers :
    workers[w].pc = "done" =>
      LET alone == parse_file(LogParser(workers[w].log_type), workers[w].file)
      IN  /\ workers[w].result = alone.result
          /\ workers[w].resolved = alone.self.log_type

\* C7 witness: every worker finished a call that overlapped another's, and
\* two of them resolved different types.
C7_Witness ==
  /\ \A w \in Workers : workers[w].pc = "done" /\ workers[w].overlapped
  /\ \E v, w \in Workers : workers[v].resolved # workers[w].resolved

\* C8: for a fixed-field grammar every record has all the columns of its
\* LOG_TYPES entry populated, the last of them holding the text of a line from
\* its n-th token to its end.
C8_FieldCount ==
  (pc = "returned" /\ self.log_type \in FixedFieldTypes) =>
    LET cols == LOG_TYPES[self.log_type].columns
        n == Len(cols)
        rows == outcome.df.rows
    IN  \A i \in DOMAIN rows :
          /\ \A c \in 1..n : cols[c] \in DOMAIN rows[i] /\ rows[i][cols[c]].t # "null"
          /\ \E j \in DOMAIN lines :
               /\ Len(Tokens(lines[j])) >= n
               /\ rows[i][cols[n]] = Str(split(strip(lines[j]), n - 1)[n])

\* C9: for a fixed-field grammar, through either entry point, a line with fewer
\* tokens than the grammar has columns produces no record.
C9_ShortLinesDropped ==
  (pc = "returned" /\ self.log_type \in FixedFieldTypes) =>
    Len(outcome.df.rows) <= LongLines(Len(LOG_TYPES[self.log_type].columns))

\* C10: when the read in the classified format fails, the lines are those of
\* the same source read as plain text from its beginning, and the empty list
\* when the source cannot be read at all.
C10_FallbackChain ==
  pc = "returned" =>
    LET viaPath == entry = "parse_file"
        fmt == IF viaPath THEN _detect_file_format(source)
               ELSE _detect_uploaded_file_format(source)
        first == IF viaPath THEN OpenAndReadAs(source, fmt) ELSE ReadAs(source, fmt, TRUE)
    IN  ~first.ok =>
          lines = IF ~source.exists THEN <<>>
                  ELSE IF viaPath THEN readlines(PlainText(source))
                  ELSE splitlines(PlainText(source))

\* C10 witness: the gzip read of a file that is not gzip failed and its text
\* was read as plain text.
C10_Witness ==
  /\ pc = "returned"
  /\ source = MisnamedFile
  /\ lines # <<>>

\* The container format the call classified its source as.
DetectedFormat ==
  IF entry = "parse_file" THEN _detect_file_format(source)
  ELSE _detect_uploaded_file_format(source)

\* C11: for a readable source whose extension decides nothing, through either
\* entry point, the container format is the one of the signature its header
\* starts with, else binary when the header holds a disallowed byte, else
\* plain.
C11_ContainerOrder ==
  (pc = "returned" /\ source.exists /\ FormatOfExtension(source.ext) = "") =>
    DetectedFormat = IF Magic(source) # "" THEN Magic(source)
                     ELSE IF is_binary(source) THEN "binary"
                     ELSE "plain"

\* C12: the content classifier sets the log type to json whenever the first
\* sample line starts with { or with [ and parses as JSON, whatever keywords
\* the sample lines hold.
C12_JsonFirstLine ==
  (/\ called = "_detect_log_format_from_content"
   /\ args.sample_lines # <<>>
   /\ strip(args.sample_lines[1])[1] \in {"{", LB}
   /\ json_loads(args.sample_lines[1]).kind # "JSONDecodeError") =>
    ret.log_type = "json"

\* The structured format whose signature a first line carries, in the order
\* the content classifier tests them; "" when it carries none.
StructuredFormatOf(line) ==
  LET first == strip(line)
  IN  IF startswith(first, BraceAtoms) /\ json_loads(line).kind # "JSONDecodeError"
      THEN "json"
      ELSE IF MatchesClfDetect(first) THEN "clf"
      ELSE IF startswith(first, {"#Fields:"}) THEN "elf"
      ELSE IF MatchesSyslogDetect(first) THEN "syslog"
      ELSE ""

\* C13: parse_file on a new instance with no declared type, given a text file
\* (plain or gzip) whose first line carries the signature of a structured
\* format, resolves that format, whatever keywords its lines hold.
C13_StructuredBeforeKeywords ==
  (/\ pc = "returned" /\ entry = "parse_file" /\ fresh /\ declared = None
   /\ source.enc \in {"plain", "gzip"} /\ source.exists /\ source.text # <<>>
   /\ StructuredFormatOf(source.text[1]) # "") =>
    self.log_type = StructuredFormatOf(source.text[1])

\* C14: format_timestamp takes a value as epoch seconds exactly when it is an
\* int or a 10-digit string; any other string that its grammar's
\* datetime_format parses is returned as the instant that format gives it, so
\* 20240101000000 under %Y%m%d%H%M%S becomes 2024-01-01 00:00:00.
C14_TimestampDisambiguation ==
  called = "format_timestamp" =>
    LET v == args.timestamp
        digits == v.t = "str" /\ Len(v.s) = 1 /\ v.s[1] \in DigitAtoms
        epoch == v.t = "num" \/ (digits /\ v.s[1] \in TenDigitAtoms)
        dt == strptime(v.s, DatetimeFormatOf(args.log_type))
    IN  /\ epoch => ret = strftime_epoch(IF v.t = "num" THEN v.n ELSE IntOf(v.s[1]))
        /\ (~epoch /\ dt.ok) => ret = dt.text
        /\ (~epoch /\ digits /\ v.s[1] \notin HugeAtoms) => ret # strftime_epoch(IntOf(v.s[1]))

\* The columns that are numeric by convention.
NumericColumns ==
  {"bandwidth", "status_code", "size", "bytes_sent", "spam_score", "attachment_count"}

\* C15: in every returned table each numeric-by-convention column that a
\* record has holds a number or null, whatever grammar produced the table.
C15_NumericCoercion ==
  pc = "returned" =>
    \A i \in DOMAIN outcome.df.rows :
      \A c \in NumericColumns \cap DOMAIN outcome.df.rows[i] :
        outcome.df.rows[i][c].t \in {"num", "null"}

\* C16: an instance declared with a type the registry does not have is
\* refused when it is constructed, and so never returns a table from a parse.
C16_UnknownTypeRejected ==
  declared \notin ({None} \cup DOMAIN LOG_TYPES) =>
    /\ LogParserRaises(declared)
    /\ pc # "returned"

\* C17: the browsing parser given the one line
\*   2024-01-01 00:00:00 10.0.0.1 alice http://a.com/x?y=1 2048 200 text/html
\*   News Mozilla/5 extra tokens here
\* returns exactly one record, with device_info "Mozilla/5 extra tokens here"
\* and url http://a.com/x?y=1.
C17_BrowsingExample ==
  (called = "_parse_browsing_logs" /\ args.lines = <<GeneratedBrowsingLine>>) =>
    /\ ~ret.raised
    /\ Len(ret.df.rows) = 1
    /\ ret.df.rows[1].device_info =
         Str(<<"Mozilla/5", SP, "extra", SP, "tokens", SP, "here">>)
    /\ ret.df.rows[1].url = Str(<<"http://a.com/x?y=1">>)

\* The request of a line of the CLF shape.
RequestOf(line) == CHOOSE r \in ClfRequests : ClfLine(r) = line

\* The i-th whitespace token of a text, the empty string when it has fewer.
TokenOr(text, i) == IF Len(Tokens(text)) >= i THEN Tokens(text)[i] ELSE <<>>

\* C18: the CLF parser returns one record for every line of the CLF shape, in
\* order, and none for the other lines; in each record method, path and
\* protocol are the first, second and third token of the request, empty when
\* absent, and url equals path.
C18_ClfRecords ==
  called = "_parse_common_log_format" =>
    LET shaped == SelectSeq(args.lines, LAMBDA l : l \notin NotClfLines)
        rows == ret.df.rows
    IN  /\ ~ret.raised
        /\ Len(rows) = Len(shaped)
        /\ \A k \in DOMAIN rows :
             LET request == RequestOf(shaped[k])
             IN  /\ rows[k].method = Str(TokenOr(request, 1))
                 /\ rows[k].path = Str(TokenOr(request, 2))
                 /\ rows[k].protocol = Str(TokenOr(request, 3))
                 /\ rows[k].url = rows[k].path

\* C18 witness: a line with a one-token request and a line that does not have
\* the shape were parsed into one record with an empty path and url.
C18_Witness ==
  /\ called = "_parse_common_log_format"
  /\ args.lines = <<ClfLine(<<"GET">>), BrowsingLine>>
  /\ Len(ret.df.rows) = 1
  /\ ret.df.rows[1].method = Str(<<"GET">>)
  /\ ret.df.rows[1].url = Str(<<>>)

\* C19: the syslog parser returns one record for each line of the syslog
\* shape and none for the others; for `... host sshd[1234]: msg` the record
\* has process sshd and pid 1234, for `... host sshd: msg` process sshd and an
\* empty pid.
C19_SyslogPid ==
  called = "_parse_syslog_format" =>
    LET shaped == SelectSeq(args.lines, LAMBDA l : l \in {SyslogPidLine, SyslogNoPidLine})
        rows == ret.df.rows
    IN  /\ ~ret.raised
        /\ Len(rows) = Len(shaped)
        /\ \A k \in DOMAIN rows :
             /\ rows[k].process = Str(<<"sshd">>)
             /\ rows[k].pid = IF shaped[k] = SyslogPidLine THEN Str(<<"1234">>) ELSE Str(<<>>)

\* C20: the ELF parser names the fields of every data line after the first
\* #Fields: directive, whatever directives follow it; data lines before that
\* directive give no record; every data line after it gives one record, whose
\* last field holds the tokens from its position on, joined by single spaces.
C20_ElfFirstDirective ==
  called = "_parse_extended_log_format" =>
    LET ls == args.lines
        directives == {i \in DOMAIN ls : ls[i][1] = "#Fields:"}
        first == IF directives = {} THEN Len(ls) + 1
                 ELSE CHOOSE i \in directives : \A j \in directives : i <= j
        fields == IF directives = {} THEN <<>> ELSE Names(Tokens(Tail(ls[first])))
        n == Len(fields)
        data == SelectSeq([i \in DOMAIN ls |-> IF i > first THEN ls[i] ELSE <<"#">>],
                          LAMBDA l : l[1] \notin HashAtoms \cup {"#"})
        rows == ret.df.rows
    IN  /\ ~ret.raised
        /\ Len(rows) = Len(data)
        /\ \A k \in DOMAIN rows :
             LET tokens == Tokens(data[k])
             IN  /\ Range(fields) \subseteq DOMAIN rows[k]
                 /\ \A j \in 1..(n - 1) : rows[k][fields[j]] = Str(tokens[j])
                 /\ rows[k][fields[n]] = Str(JoinWords(tokens, n, Len(tokens)))

\* C21: a .csv file parsed by parse_file of a new parser of declared type csv
\* gives the table of its CSV rows: the first row is the header, and each later
\* row with at least one field gives one record that maps header[i] to the
\* i-th field of that row as the CSV quoting rules delimit it (a quoted field
\* with a comma in it is one field); a row shorter than the header has no
\* value for the trailing columns.
C21_CsvEndToEnd ==
  (pc = "returned" /\ entry = "parse_file" /\ fresh /\ declared = "csv"
     /\ source \in CsvFiles)
    => LET rows == csv_reader(readlines(source.text))
       IN  outcome = Returned(DataFrame(CsvRows(Names(rows[1]), Tail(rows))))

\* The objects among the JSON values of the lines, in input order.
RECURSIVE JsonObjectsOf(_)
JsonObjectsOf(input) ==
  IF input = <<>> THEN <<>>
  ELSE LET j == json_loads(strip(Head(input)))
       IN  (IF j.kind = "object" THEN <<j.value>> ELSE <<>>) \o JsonObjectsOf(Tail(input))

\* C22: _parse_json_format returns the table that has exactly one record for
\* each input line that parses as a JSON object, in input order, and nothing
\* for any other line (text that is no JSON, or JSON that is not an object).
C22_JsonObjectsOnly ==
  called = "_parse_json_format" => ret = Returned(DataFrame(JsonObjectsOf(args.lines)))

\* The keyword categories in the order of their priority, and whether a line
\* matches one.
Categories ==
  <<"browsing", "virus", "mail", "firewall", "auth", "system", "application", "ids", "vpn">>

CategoryMatches(c, line) ==
  IF c = "browsing" THEN re_search("url", line) /\ re_search("status", line)
  ELSE re_search(c, line)

\* C23: when the first sample line carries no structured signature, the
\* classifier leaves the type of the highest-priority category that the
\* earliest matching sample line matches, whatever the later lines hold; when
\* no sample line matches a category the type stays what it was.
C23_KeywordOrder ==
  (/\ called = "_detect_log_format_from_content"
   /\ (args.sample_lines = <<>> \/ StructuredFormatOf(args.sample_lines[1]) = "")) =>
    LET s == args.sample_lines
        hits == {i \in DOMAIN s :
                   \E k \in DOMAIN Categories : CategoryMatches(Categories[k], s[i])}
    IN  IF hits = {} THEN ret.log_type = args.self.log_type
        ELSE LET i == CHOOSE i \in hits : \A j \in hits : i <= j
                 k == CHOOSE k \in DOMAIN Categories :
                        /\ CategoryMatches(Categories[k], s[i])
                        /\ \A m \in 1..(k - 1) : ~CategoryMatches(Categories[m], s[i])
             IN  ret.log_type = Categories[k]

\* A line without keywords, then a line of three categories: the second line
\* decided, by its highest-priority category.
C23_Witness ==
  /\ called = "_detect_log_format_from_content"
  /\ args.self.log_type = "csv"
  /\ args.sample_lines = <<JsonArrayText, MixedLine>>
  /\ ret.log_type = "virus"

\* C24: on an instance with n columns, _parse_generic_logs keeps the same
\* lines as the split-and-keep loop of a fixed-field parser with those n
\* columns (a line with fewer than n tokens is treated alike by both), and
\* stores in the last column what that loop stores: the text of the line from
\* its n-th token to its end.
C24_GenericFoldsLikeFixed ==
  called = "_parse_generic_logs" =>
    LET columns == args.self.columns
        last == columns[Len(columns)]
        fixed == FixedRows(args.lines, columns, args.self.log_type)
    IN  /\ ~ret.raised
        /\ Len(ret.df.rows) = Len(fixed)
        /\ \A i \in DOMAIN fixed :
             last \in DOMAIN ret.df.rows[i] /\ ret.df.rows[i][last] = fixed[i][last]

\* The records of the chunks' tables, one table after the other.
RECURSIVE ConcatRows(_)
ConcatRows(results) ==
  IF results = <<>> THEN <<>> ELSE Head(results).df.rows \o ConcatRows(Tail(results))

\* The lines a browsing parser keeps: those with nine tokens or more.
RECURSIVE KeptLines(_)
KeptLines(input) ==
  IF input = <<>> THEN <<>>
  ELSE (IF Len(Tokens(Head(input))) >= 9 THEN <<Head(input)>> ELSE <<>>)
         \o KeptLines(Tail(input))

C26_PathBufferEquivalent ==
  (pc = "returned" /\ fresh /\ source \in Uploads) =>
    LET by_path == parse_file(LogParser(declared), source)
        by_buffer == parse_uploaded_file(LogParser(declared), source)
    IN  /\ _detect_file_format(source) = _detect_uploaded_file_format(source)
        /\ by_path.self.log_type = by_buffer.self.log_type
        /\ DispatchFile(by_path.self, by_path.lines)
             = DispatchUploaded(by_path.self, by_path.lines)
        /\ by_path.result = by_buffer.result

\* C27: after __init__ and after every call of parse_file or
\* parse_uploaded_file, the instance's columns, separator and datetime_format
\* are those the LOG_TYPES registry gives for its current log_type.
C27_SettingsMatchType ==
  /\ self.columns = ColumnsOf(self.log_type)
  /\ self.separator = SeparatorOf(self.log_type)
  /\ self.datetime_format = DatetimeFormatOf(self.log_type)

\* One record per element that has children: its child tags and their texts.
RECURSIVE XmlRecordsOf(_)
XmlRecordsOf(elems) ==
  IF elems = <<>> THEN <<>>
  ELSE (IF Head(elems).children # <<>> THEN <<XmlRow(Head(elems).children)>> ELSE <<>>)
         \o XmlRecordsOf(Tail(elems))

\* C28: a well-formed .xml file parsed by parse_file of a new parser of
\* declared type xml gives the table that has exactly one record for each
\* descendant element of the root that has a child element, its columns the
\* child tags and its values the child texts; the root and the elements without
\* children give no record.
C28_XmlEndToEnd ==
  (pc = "returned" /\ entry = "parse_file" /\ fresh /\ declared = "xml"
     /\ source \in XmlFiles)
    => LET root == CHOOSE r \in XmlRoots : source = XmlFile(r)
       IN  outcome = Returned(DataFrame(XmlRecordsOf(findall(root.children))))

\* C29: manage_cache_size deletes nothing from a directory whose total size is
\* at most MAX_CACHE_SIZE; from a larger one it deletes files oldest first (a
\* file goes only if every file with an older modification time goes too),
\* stops at the first file after whose removal the total is at most 80% of
\* MAX_CACHE_SIZE, and leaves the files it keeps as they were; what it leaves,
\* also when the wrapper of cache_to_disk calls it after a save, is never more
\* than MAX_CACHE_SIZE.
C29_CacheEviction ==
  /\ called = "manage_cache_size" =>
       LET before == args.cache_files
           deleted == DOMAIN before \ DOMAIN ret
       IN  /\ DOMAIN ret \subseteq DOMAIN before
           /\ \A f \in DOMAIN ret : ret[f] = before[f]
           /\ total_size(before) <= MAX_CACHE_SIZE => deleted = {}
           /\ \A f \in deleted, g \in DOMAIN before :
                before[g].mtime < before[f].mtime => g \in deleted
           /\ total_size(before) > MAX_CACHE_SIZE =>
                /\ 5 * total_size(ret) <= 4 * MAX_CACHE_SIZE
                /\ \E f \in deleted :
                     /\ \A g \in deleted : before[g].mtime <= before[f].mtime
                     /\ 5 * (total_size(ret) + before[f].size) > 4 * MAX_CACHE_SIZE
           /\ total_size(ret) <= MAX_CACHE_SIZE
  /\ called = "cache_to_disk" =>
       (total_size(args.cache_files) <= MAX_CACHE_SIZE => total_size(ret) <= MAX_CACHE_SIZE)

\* A directory of three files over the limit, of which the two oldest had to
\* go before the total was within 80% of the limit.
C29_Witness ==
  /\ called = "manage_cache_size"
  /\ Cardinality(DOMAIN args.cache_files) = 3
  /\ total_size(args.cache_files) > MAX_CACHE_SIZE
  /\ Cardinality(DOMAIN ret) = 1
  /\ \A f \in DOMAIN args.cache_files \ DOMAIN ret, g \in DOMAIN ret :
       args.cache_files[f].mtime < args.cache_files[g].mtime

\* C30: for a logged-in user, a check_session_validity call made at most
\* AUTH_TIMEOUT seconds after login_time was last set (by the login or by the
\* previous successful check) returns True and sets login_time to the time of
\* the call, leaving the rest of the session as it was; a call made later than
\* that logs the user out.  Whenever the user is logged out, username,
\* user_role and login_time are cleared (and log_data too right after the
\* expiry), and check_user_role returns False for every role.
C30_SlidingExpiry ==
  /\ (called = "check_session_validity" /\ args.session_state.logged_in) =>
       IF args.now - args.session_state.login_time <= AUTH_TIMEOUT
       THEN /\ ret = "True"
            /\ session_state = [args.session_state EXCEPT !.login_time = args.now]
       ELSE /\ ~session_state.logged_in
            /\ session_state.log_data \in {None, NoKey}
  /\ ~session_state.logged_in =>
       /\ session_state.username = None
       /\ session_state.user_role = None
       /\ session_state.login_time = NoTime
  /\ (called = "check_user_role" /\ ~args.session_state.logged_in) => ret = "False"

\* A session with a stored table whose login_time an earlier check had moved
\* forward, checked more than AUTH_TIMEOUT after that: the user is logged out.
C30_Witness ==
  /\ called = "check_session_validity"
  /\ args.session_state.logged_in
  /\ args.session_state.log_data = "data"
  /\ args.session_state.login_time > Epoch
  /\ args.now - args.session_state.login_time > AUTH_TIMEOUT
  /\ ~session_state.logged_in

====
